---------------------------- MODULE Spec2Model ----------------------------
(***************************************************************************)
(* Animation Retimer (src/Animation_Retimer.py): the retiming session      *)
(* (start / timer tick / apply / cancel), the RT_ marker store and the     *)
(* piecewise remapping of keyframe times.                                  *)
(*                                                                         *)
(* Marker frames are Blender ints.  Keyframe times are Python floats       *)
(* (IEEE binary64): they are modelled bit-exactly as dyadic numbers        *)
(*      sg * m * 2^e                                                       *)
(* with m an odd natural of at most 53 bits, written in base 2^15, least   *)
(* significant digit first.  Every arithmetic step of the code is one      *)
(* correctly rounded (round-to-nearest-even) operation here.               *)
(***************************************************************************)
EXTENDS Integers, Sequences, FiniteSets, TLC

---------------------------------------------------------------------------
(* Python float arithmetic                                                 *)

\* bits of a binary64 significand
Precision == 53
\* bits of one digit of a significand as it is written here
LimbBits == 3 * 5
Base == 2 ^ LimbBits

Min2(a, b) == IF a <= b THEN a ELSE b
Max2(a, b) == IF a >= b THEN a ELSE b
AbsInt(n) == IF n < 0 THEN -n ELSE n
SignInt(n) == IF n < 0 THEN -1 ELSE 1

\* number of bits of the natural n
RECURSIVE IntBitLen(_)
IntBitLen(n) == IF n = 0 THEN 0 ELSE 1 + IntBitLen(n \div 2)

\* number of trailing zero bits of the natural n > 0
RECURSIVE IntTz(_)
IntTz(n) == IF n % 2 = 1 THEN 0 ELSE 1 + IntTz(n \div 2)

\* naturals of any size: digits in base Base, least significant first
RECURSIVE BStrip(_)
BStrip(N) ==
    IF N = <<>> \/ N[Len(N)] # 0 THEN N ELSE BStrip(SubSeq(N, 1, Len(N) - 1))

RECURSIVE BFromInt(_)
BFromInt(n) == IF n = 0 THEN <<>> ELSE <<n % Base>> \o BFromInt(n \div Base)

RECURSIVE BToInt(_)
BToInt(N) == IF N = <<>> THEN 0 ELSE Head(N) + Base * BToInt(Tail(N))

BHead(N) == IF N = <<>> THEN 0 ELSE Head(N)
BTail(N) == IF N = <<>> THEN <<>> ELSE Tail(N)

\* N * c + carry, for naturals c, carry < Base
RECURSIVE BMulSmall(_, _, _)
BMulSmall(N, c, carry) ==
    IF N = <<>> THEN BFromInt(carry)
    ELSE LET t == Head(N) * c + carry
         IN  <<t % Base>> \o BMulSmall(Tail(N), c, t \div Base)

\* <<N div d, N mod d>>, for a natural 0 < d < Base
RECURSIVE BDivSmall(_, _)
BDivSmall(N, d) ==
    IF N = <<>> THEN <<<<>>, 0>>
    ELSE LET hi == BDivSmall(Tail(N), d)
             t  == hi[2] * Base + Head(N)
         IN  <<(<<t \div d>>) \o hi[1], t % d>>

\* A + B + c
RECURSIVE BAdd(_, _, _)
BAdd(A, B, c) ==
    IF A = <<>> /\ B = <<>> THEN BFromInt(c)
    ELSE LET t == BHead(A) + BHead(B) + c
         IN  <<t % Base>> \o BAdd(BTail(A), BTail(B), t \div Base)

\* A - B - c, for A >= B + c
RECURSIVE BSub(_, _, _)
BSub(A, B, c) ==
    IF A = <<>> THEN <<>>
    ELSE LET t == Head(A) - BHead(B) - c
         IN  <<IF t < 0 THEN t + Base ELSE t>>
                \o BSub(Tail(A), BTail(B), IF t < 0 THEN 1 ELSE 0)

\* -1, 0, 1: the order of two naturals without leading zero digits
RECURSIVE BCmpAt(_, _, _)
BCmpAt(A, B, i) ==
    IF i = 0 THEN 0
    ELSE IF A[i] < B[i] THEN -1
    ELSE IF A[i] > B[i] THEN 1
    ELSE BCmpAt(A, B, i - 1)

BCmp(A, B) ==
    IF Len(A) < Len(B) THEN -1
    ELSE IF Len(A) > Len(B) THEN 1
    ELSE BCmpAt(A, B, Len(A))

BitLen(N) ==
    IF N = <<>> THEN 0 ELSE (Len(N) - 1) * LimbBits + IntBitLen(N[Len(N)])

\* trailing zero bits of N > 0
RECURSIVE BTz(_)
BTz(N) == IF Head(N) = 0 THEN LimbBits + BTz(Tail(N)) ELSE IntTz(Head(N))

\* N * 2^k
BShl(N, k) ==
    IF N = <<>> THEN <<>>
    ELSE [i \in 1..(k \div LimbBits) |-> 0] \o BMulSmall(N, 2 ^ (k % LimbBits), 0)

\* <<N div 2^k, N mod 2^k # 0>>
BShr(N, k) ==
    LET q    == Min2(k \div LimbBits, Len(N))
        dv   == BDivSmall(SubSeq(N, q + 1, Len(N)), 2 ^ (k % LimbBits))
    IN  <<BStrip(dv[1]), dv[2] # 0 \/ \E i \in 1..q : N[i] # 0>>

FZero == [sg |-> 1, m |-> <<>>, e |-> 0]

\* the float sg * N * 2^e, for N of at most Precision bits
Norm(sg, N, e) ==
    IF N = <<>> THEN FZero
    ELSE LET z == BTz(N)
         IN  [sg |-> sg, m |-> BShr(N, z)[1], e |-> e + z]

\* sg * (N + a fraction, nonzero iff sticky) * 2^e rounded to the nearest
\* float, a tie to the even significand
Round53(sg, N0, e, sticky) ==
    LET N == BStrip(N0)
        L == BitLen(N)
    IN  IF L <= Precision THEN Norm(sg, N, e)
        ELSE LET k     == L - Precision
                 sh    == BShr(N, k - 1)
                 guard == sh[1][1] % 2
                 Q     == BShr(sh[1], 1)[1]
                 up    == guard = 1 /\ (sticky \/ sh[2] \/ Q[1] % 2 = 1)
             IN  Norm(sg, IF up THEN BAdd(Q, <<>>, 1) ELSE Q, e + k)

\* float(n) for an int n
FromInt(n) == Norm(SignInt(n), BFromInt(AbsInt(n)), 0)

FNeg(x) == IF x = FZero THEN x ELSE [x EXCEPT !.sg = -x.sg]
FAbs(x) == [x EXCEPT !.sg = 1]

\* -1, 0, 1: the order of two floats
FCmp(x, y) ==
    IF x = y THEN 0
    ELSE IF x = FZero THEN -y.sg
    ELSE IF y = FZero THEN x.sg
    ELSE IF x.sg # y.sg THEN x.sg
    ELSE LET e0 == Min2(x.e, y.e)
         IN  x.sg * BCmp(BShl(x.m, x.e - e0), BShl(y.m, y.e - e0))

FLe(x, y) == FCmp(x, y) <= 0
FLt(x, y) == FCmp(x, y) < 0

\* x + y
FAdd(x, y) ==
    LET e0 == Min2(x.e, y.e)
        A  == BShl(x.m, x.e - e0)
        B  == BShl(y.m, y.e - e0)
    IN  IF x = FZero THEN y
        ELSE IF y = FZero THEN x
        ELSE IF x.sg = y.sg THEN Round53(x.sg, BAdd(A, B, 0), e0, FALSE)
        ELSE IF BCmp(A, B) >= 0 THEN Round53(x.sg, BSub(A, B, 0), e0, FALSE)
        ELSE Round53(y.sg, BSub(B, A, 0), e0, FALSE)

\* x - y
FSub(x, y) == FAdd(x, FNeg(y))

\* x * c for an int c (|c| < Base): float * int converts the int exactly
FMulInt(x, c) ==
    IF x = FZero \/ c = 0 THEN FZero
    ELSE Round53(x.sg * SignInt(c), BMulSmall(x.m, AbsInt(c), 0), x.e, FALSE)

\* x / float(d) for an int d # 0 (|d| < Base)
FDivInt(x, d) ==
    IF x = FZero THEN FZero
    ELSE LET s  == Precision + 2 + IntBitLen(AbsInt(d))
             dv == BDivSmall(BShl(x.m, s), AbsInt(d))
         IN  Round53(x.sg * SignInt(d), dv[1], x.e - s, dv[2] # 0)

\* a rounding to the nearest int that takes a tie away from zero
RoundHalfAway(x) ==
    IF x = FZero THEN 0
    ELSE IF x.e >= 0 THEN x.sg * BToInt(BShl(x.m, x.e))
    ELSE LET sh    == BShr(x.m, (-x.e) - 1)
             guard == BHead(sh[1]) % 2
             ip    == BToInt(BShr(sh[1], 1)[1])
         IN  x.sg * (IF guard = 1 THEN ip + 1 ELSE ip)

\* round(x): Python 3 rounds a float to the nearest int, a tie to the even one
PyRound(x) ==
    IF x = FZero THEN 0
    ELSE IF x.e >= 0 THEN x.sg * BToInt(BShl(x.m, x.e))
    ELSE LET sh    == BShr(x.m, (-x.e) - 1)
             guard == BHead(sh[1]) % 2
             ip    == BToInt(BShr(sh[1], 1)[1])
             up    == guard = 1 /\ (sh[2] \/ ip % 2 = 1)
         IN  x.sg * (IF up THEN ip + 1 ELSE ip)


---------------------------------------------------------------------------
(* Python containers                                                       *)

\* {} and []: a dict is a function on its keys, a list is a sequence
EmptyDict == <<>>

Get(d, k, default) == IF k \in DOMAIN d THEN d[k] ELSE default
Put(d, k, v) == [x \in DOMAIN d \cup {k} |-> IF x = k THEN v ELSE d[x]]
Pop(d, k) == [x \in DOMAIN d \ {k} |-> d[x]]

\* sorted(s, key=...) with int keys: stable, keys[i] the key of s[i]
StableSort(s, keys) ==
    LET n == Len(s)
        rank(i) == Cardinality({j \in 1..n :
                       keys[j] < keys[i] \/ (keys[j] = keys[i] /\ j < i)}) + 1
    IN  [p \in 1..n |-> s[CHOOSE i \in 1..n : rank(i) = p]]

\* sorted(s, key=...) and list.sort(key=...) with float keys: stable
StableSortFloat(s, keys) ==
    LET n == Len(s)
        rank(i) == Cardinality({j \in 1..n :
                       FLt(keys[j], keys[i]) \/ (keys[j] = keys[i] /\ j < i)}) + 1
    IN  [p \in 1..n |-> s[CHOOSE i \in 1..n : rank(i) = p]]

Range(s) == {s[i] : i \in DOMAIN s}

---------------------------------------------------------------------------
(* Markers and segments                                                    *)

\* A marker is [name, frame]; only the RT_ markers of the scene are kept in
\* the model, in the order of the scene's marker collection.
get_ordered_markers(timeline_markers) ==
    StableSort(timeline_markers,
               [i \in DOMAIN timeline_markers |-> timeline_markers[i].frame])

\* {m.name: m.frame for m in markers}
MarkerPositions(ms) ==
    [nm \in {ms[i].name : i \in DOMAIN ms} |->
        ms[CHOOSE i \in DOMAIN ms : ms[i].name = nm].frame]

\* the names of the ordered markers that have an original position, sorted
\* by it (stable: markers with equal original positions keep the order of
\* their current frames)
SortedMarkerNames(markers, original_marker_positions) ==
    LET valid == SelectSeq([i \in DOMAIN markers |-> markers[i].name],
                           LAMBDA nm : nm \in DOMAIN original_marker_positions)
    IN  StableSort(valid,
                   [i \in DOMAIN valid |-> original_marker_positions[valid[i]]])

\* one (start, end) pair per adjacent pair of sorted names
OriginalSegments(names, original_marker_positions) ==
    [i \in 1..(Len(names) - 1) |->
        <<original_marker_positions[names[i]],
          original_marker_positions[names[i + 1]]>>]

CurrentSegments(names, current_positions) ==
    [i \in 1..(Len(names) - 1) |->
        <<current_positions[names[i]], current_positions[names[i + 1]]>>]

\* what find_segment returns: an index (from 1 here, from 0 in the code),
\* 'before', 'after' or None
SegIndex(i) == [kind |-> "index", idx |-> i]
SegBefore == [kind |-> "before", idx |-> 0]
SegAfter == [kind |-> "after", idx |-> 0]
SegNone == [kind |-> "none", idx |-> 0]

\* a lookup that gives a frame to the last segment that holds it
RECURSIVE FindSegmentFromLater(_, _, _)
FindSegmentFromLater(frame, segments, i) ==
    IF i > Len(segments) THEN SegNone
    ELSE LET later == FindSegmentFromLater(frame, segments, i + 1)
         IN  IF later # SegNone THEN later
             ELSE IF FLe(FromInt(segments[i][1]), frame)
                        /\ FLe(frame, FromInt(segments[i][2]))
             THEN SegIndex(i)
             ELSE SegNone

\* the loop of find_segment from segment i on
RECURSIVE FindSegmentFrom(_, _, _)
FindSegmentFrom(frame, segments, i) ==
    IF i > Len(segments) THEN SegNone
    ELSE LET start == FromInt(segments[i][1])
             end   == FromInt(segments[i][2])
         IN  IF FLe(start, frame) /\ FLe(frame, end) THEN
                 IF frame = end /\ i < Len(segments)
                        /\ frame = FromInt(segments[i + 1][1])
                 THEN SegIndex(i)
                 ELSE SegIndex(i)
             ELSE FindSegmentFrom(frame, segments, i + 1)

find_segment(frame, segments) ==
    IF segments = <<>> THEN SegNone
    ELSE LET found == FindSegmentFrom(frame, segments, 1)
         IN  IF found # SegNone THEN found
             ELSE IF FLt(frame, FromInt(segments[1][1])) THEN SegBefore
             ELSE IF FLt(FromInt(segments[Len(segments)][2]), frame) THEN SegAfter
             ELSE SegNone

\* abs(orig_length) < 0.0001, for an int orig_length
ZeroLength(orig_length) == AbsInt(orig_length) * 10000 < 1

\* a 'before' offset taken to the end of the first current segment
BeforeOffsetToEnd(original_segments, current_segments) ==
    current_segments[1][2] - original_segments[1][1]

\* offset of a key before the first segment
BeforeOffset(original_segments, current_segments) ==
    current_segments[1][1] - original_segments[1][1]

\* an 'after' offset taken from the starts of the last segments
AfterOffsetFromStart(original_segments, current_segments) ==
    current_segments[Len(current_segments)][1]
        - original_segments[Len(original_segments)][1]

\* offset of a key after the last segment
AfterOffset(original_segments, current_segments) ==
    current_segments[Len(current_segments)][2]
        - original_segments[Len(original_segments)][2]

\* a key in a segment placed by its distance from the start, unscaled
NewXUnscaled(orig_x, orig_start, orig_end, curr_start, curr_end) ==
    FAdd(FromInt(curr_start), FSub(orig_x, FromInt(orig_start)))

\* a key in a segment, with a zero-length segment snapping to the current end
NewXZeroToEnd(orig_x, orig_start, orig_end, curr_start, curr_end) ==
    LET orig_length == orig_end - orig_start
    IN  IF ZeroLength(orig_length) THEN FromInt(curr_end)
        ELSE FAdd(FromInt(curr_start),
                  FMulInt(FDivInt(FSub(orig_x, FromInt(orig_start)), orig_length),
                          curr_end - curr_start))

\* new_x of a key in the segment (orig_start, orig_end), now
\* (curr_start, curr_end)
NewXInSegment(orig_x, orig_start, orig_end, curr_start, curr_end) ==
    LET orig_length == orig_end - orig_start
        position_in_segment ==
            FDivInt(FSub(orig_x, FromInt(orig_start)), orig_length)
        curr_length == curr_end - curr_start
    IN  IF ZeroLength(orig_length) THEN FromInt(curr_start)
        ELSE FAdd(FromInt(curr_start),
                  FMulInt(position_in_segment, curr_length))

\* new_x of one captured key time
NewX(orig_x, original_segments, current_segments) ==
    LET segment_idx == find_segment(orig_x, original_segments)
    IN  IF original_segments = <<>> \/ current_segments = <<>> THEN orig_x
        ELSE IF segment_idx.kind = "before" THEN
            FAdd(orig_x, FromInt(BeforeOffset(original_segments, current_segments)))
        ELSE IF segment_idx.kind = "after" THEN
            FAdd(orig_x, FromInt(AfterOffset(original_segments, current_segments)))
        ELSE IF segment_idx.kind = "index" THEN
            NewXInSegment(orig_x,
                          original_segments[segment_idx.idx][1],
                          original_segments[segment_idx.idx][2],
                          current_segments[segment_idx.idx][1],
                          current_segments[segment_idx.idx][2])
        ELSE orig_x

\* every captured key with its new time and the left handle of the first key
CalculatedNewKeysOneHandle(original_keys, original_segments, current_segments) ==
    [i \in DOMAIN original_keys |->
        [x      |-> NewX(original_keys[i].x, original_segments, current_segments),
         y      |-> original_keys[i].y,
         interp |-> original_keys[i].interp,
         hl     |-> original_keys[1].hl,
         hr     |-> original_keys[i].hr,
         type   |-> original_keys[i].type]]

\* calculated_new_keys: every captured key with its new time, fields copied
CalculatedNewKeys(original_keys, original_segments, current_segments) ==
    [i \in DOMAIN original_keys |->
        [x      |-> NewX(original_keys[i].x, original_segments, current_segments),
         y      |-> original_keys[i].y,
         interp |-> original_keys[i].interp,
         hl     |-> original_keys[i].hl,
         hr     |-> original_keys[i].hr,
         type   |-> original_keys[i].type]]

---------------------------------------------------------------------------
(* Snapping and merging                                                    *)

\* the indices at which the sequence ks first takes each of its values, in
\* order: the insertion order of the keys of a dict filled with the keys ks
FirstIndices(ks) ==
    SelectSeq([i \in DOMAIN ks |-> i],
              LAMBDA i : \A j \in 1..(i - 1) : ks[j] # ks[i])

\* a merge that keeps the first key of a frame, whatever its distance
BestKeyDataFirst(keys_at_frame, frame) == keys_at_frame[1]

\* keys_at_frame after its sort by abs(k[0] - frame), first element
BestKeyData(keys_at_frame, frame) ==
    StableSortFloat(keys_at_frame,
        [i \in DOMAIN keys_at_frame |->
            FAbs(FSub(keys_at_frame[i].x, FromInt(frame)))])[1]

\* final_keys_to_insert.values() with snapping: one key per rounded frame
SnappedKeys(calculated_new_keys) ==
    LET first == FirstIndices([i \in DOMAIN calculated_new_keys |->
                                    PyRound(calculated_new_keys[i].x)])
    IN  [g \in DOMAIN first |->
            LET frame == PyRound(calculated_new_keys[first[g]].x)
                keys_at_frame == SelectSeq(calculated_new_keys,
                                           LAMBDA k : PyRound(k.x) = frame)
                best_key_data == BestKeyData(keys_at_frame, frame)
            IN  [x      |-> FromInt(frame),
                 y      |-> best_key_data.y,
                 interp |-> best_key_data.interp,
                 hl     |-> best_key_data.hl,
                 hr     |-> best_key_data.hr,
                 type   |-> best_key_data.type]]

\* without snapping, the first key of a time kept and the later ones dropped
UnsnappedKeysFirst(calculated_new_keys) ==
    LET first == FirstIndices([i \in DOMAIN calculated_new_keys |->
                                    calculated_new_keys[i].x])
    IN  [g \in DOMAIN first |-> calculated_new_keys[first[g]]]

\* final_keys_to_insert.values() without snapping: a later key replaces an
\* earlier one of exactly the same time
UnsnappedKeys(calculated_new_keys) ==
    LET first == FirstIndices([i \in DOMAIN calculated_new_keys |->
                                    calculated_new_keys[i].x])
    IN  [g \in DOMAIN first |->
            LET same == SelectSeq(calculated_new_keys,
                            LAMBDA k : k.x = calculated_new_keys[first[g]].x)
            IN  same[Len(same)]]

\* final_sorted_keys
FinalSortedKeys(calculated_new_keys, snap_frames) ==
    LET final_keys == IF snap_frames THEN SnappedKeys(calculated_new_keys)
                      ELSE UnsnappedKeys(calculated_new_keys)
    IN  StableSortFloat(final_keys,
                        [i \in DOMAIN final_keys |-> final_keys[i].x])

---------------------------------------------------------------------------
(* Writing the keys of an F-Curve                                          *)

\* What the host does to one write: clear = -1 when removing the keys works,
\* else the number of keys removed before remove() raises ReferenceError;
\* skip = the positions of the new keys whose insert() raises.
NoFault == [clear |-> -1, skip |-> {}]

\* keyframe_points.insert: a key at a time that has one replaces it, any
\* other is placed by its time (the points are sorted at fcurve.update())
InsertKey(keyframe_points, k) ==
    IF \E i \in DOMAIN keyframe_points : keyframe_points[i].x = k.x
    THEN [i \in DOMAIN keyframe_points |->
            IF keyframe_points[i].x = k.x THEN k ELSE keyframe_points[i]]
    ELSE SelectSeq(keyframe_points, LAMBDA q : FLt(q.x, k.x)) \o <<k>>
            \o SelectSeq(keyframe_points, LAMBDA q : FLt(k.x, q.x))

\* the insert loop over keys[i..], inserts at the positions in skip failing
RECURSIVE InsertKeys(_, _, _, _)
InsertKeys(keyframe_points, keys, i, skip) ==
    IF i > Len(keys) THEN keyframe_points
    ELSE InsertKeys(IF i \in skip THEN keyframe_points
                    ELSE InsertKey(keyframe_points, keys[i]),
                    keys, i + 1, skip)

ClearFails(keyframe_points, fault) ==
    fault.clear >= 0 /\ fault.clear < Len(keyframe_points)

\* remove every key, then insert the new ones; a failed clear leaves the
\* keys not yet removed and skips the inserts
ReplaceKeys(keyframe_points, keys, fault) ==
    IF ClearFails(keyframe_points, fault)
    THEN SubSeq(keyframe_points, fault.clear + 1, Len(keyframe_points))
    ELSE InsertKeys(<<>>, keys, 1, fault.skip)

\* a retiming that maps the keys the F-Curve has, not the captured ones
RetimeFCurvePatching(keyframe_points, original_keys_for_fcurve, original_segments, current_segments, snap_frames, fault) ==
    ReplaceKeys(keyframe_points,
                FinalSortedKeys(CalculatedNewKeys(keyframe_points,
                                    original_segments, current_segments),
                                snap_frames),
                fault)

\* process_retiming, one F-Curve: its keyframe_points afterwards
RetimeFCurve(keyframe_points, original_keys_for_fcurve, original_segments, current_segments, snap_frames, fault) ==
    IF original_keys_for_fcurve = <<>> THEN ReplaceKeys(keyframe_points, <<>>, fault)
    ELSE ReplaceKeys(keyframe_points,
                     FinalSortedKeys(CalculatedNewKeys(original_keys_for_fcurve,
                                         original_segments, current_segments),
                                     snap_frames),
                     fault)

\* a restore that gives both handles of a key the stored left handle
RestoreFCurveOneHandle(keyframe_points, original_keys, fault) ==
    ReplaceKeys(keyframe_points,
                [i \in DOMAIN original_keys |->
                    [original_keys[i] EXCEPT !.hr = original_keys[i].hl + 1]],
                fault)

\* restore_from_original_for_object, one F-Curve
RestoreFCurve(keyframe_points, original_keys, fault) ==
    ReplaceKeys(keyframe_points,
                StableSortFloat(original_keys,
                    [i \in DOMAIN original_keys |-> original_keys[i].x]),
                fault)

---------------------------------------------------------------------------
(* The scene, the objects and the add-on's state                           *)

\* bounds of the model
MaxFrame == 2
MaxMarkers == 3
MaxKeys == 3
MaxSessions == 1
MaxEdits == 4
MaxFaults == 1
MaxHandlers == 2

Frames == 0..MaxFrame

\* bpy.data.objects, in the order context.selected_objects lists them, and
\* the (data_path, array_index) keys of the F-Curves of an object's action
ObjectOrder == <<"A", "B">>
Objects == Range(ObjectOrder)
FCurveKeys == {<<"location", 0>>}

\* a keyframe point: its time co.x and the fields that are carried along
Key(t, id) == [x |-> FromInt(t), y |-> id, interp |-> id, hl |-> id,
               hr |-> id, type |-> id]

\* the curves a scene may start with: keys at whole frames, sorted by time
RECURSIVE KeysAt(_, _)
KeysAt(times, id) ==
    IF times = {} THEN <<>>
    ELSE LET t == CHOOSE x \in times : \A z \in times : x <= z
         IN  <<Key(t, id)>> \o KeysAt(times \ {t}, id + 1)

InitialCurves == {KeysAt(ts, 1) : ts \in {S \in SUBSET Frames : Cardinality(S) = MaxKeys}}

\* self.report(...) of the operator that ran last
NoReport == "none"

VARIABLES
    timeline_markers,     \* scene.timeline_markers (RT_ markers): [name, frame]
    objects,              \* per object: "ok" (an action with F-Curves),
                          \* "empty" (an action without F-Curves), "noanim"
                          \* (no animation_data or no action) or "gone"
                          \* (not in bpy.data.objects)
    selected_objects,     \* context.selected_objects; read when a session
                          \* starts only, so a run keeps the selection it
                          \* starts with
    fcurves,              \* per object and F-Curve key: its keyframe_points
    retimer_data,         \* the module's dict
    retimer_active,       \* wm.retimer_active
    retimer_snap_frames,  \* wm.retimer_snap_frames
    modal_handlers,       \* the running RetimeMarker operators, each with
                          \* its _last_marker_positions
    report,               \* what the last operator reported
    used                  \* what the run has used of its bounds: the sessions
                          \* started, the marker edits made and the passes
                          \* over the curves in which a write went wrong

vars == <<timeline_markers, objects, selected_objects, fcurves, retimer_data,
          retimer_active, retimer_snap_frames, modal_handlers, report, used>>

\* retimer_data as the module creates it.  original_start, original_end and
\* original_segments are written at start and read only by the panel's
\* draw(); they are left out.
InitialRetimerData ==
    [k \in {"original_markers", "objects_processed", "objects_temp_keyframe_data"} |->
        IF k = "objects_processed" THEN <<>> ELSE EmptyDict]

Init ==
    /\ timeline_markers = <<>>
    /\ \E b \in {"empty", "noanim"} :
          objects = [o \in Objects |-> IF o = "A" THEN "ok" ELSE b]
    /\ selected_objects \in SUBSET Objects
    /\ \E c \in InitialCurves :
          fcurves = [o \in Objects |->
                        [key \in IF o = "A" THEN FCurveKeys ELSE {} |-> c]]
    /\ retimer_data = InitialRetimerData
    /\ retimer_active = FALSE
    /\ retimer_snap_frames = TRUE
    /\ modal_handlers = <<>>
    /\ report = NoReport
    /\ used = [sessions |-> 0, edits |-> 0, faults |-> 0]

MarkerNames == {timeline_markers[i].name : i \in DOMAIN timeline_markers}

\* an object with animation_data and an action
Animated(o) == objects[o] \in {"ok", "empty"}

---------------------------------------------------------------------------
(* Operators of the add-on                                                 *)

\* one more marker edit by the user, while the run has edits left
Edit ==
    /\ used.edits < MaxEdits
    /\ used' = [used EXCEPT !.edits = @ + 1]

\* RT_<frame>, RT_<frame>_1, RT_<frame>_2, ...: the first name not taken
RECURSIVE FreeName(_, _)
FreeName(frame, i) ==
    IF [f |-> frame, i |-> i] \in MarkerNames THEN FreeName(frame, i + 1)
    ELSE [f |-> frame, i |-> i]

\* ANIMATION_RETIMER_OT_AddMarker.execute at scene.frame_current = frame
AddMarker(frame) ==
    LET marker == [name |-> FreeName(frame, 0), frame |-> frame]
    IN  /\ Len(timeline_markers) < MaxMarkers
        /\ timeline_markers' = Append(timeline_markers, marker)
        /\ retimer_data' =
              IF ~retimer_active
              THEN Put(retimer_data, "original_markers",
                       Put(Get(retimer_data, "original_markers", EmptyDict),
                           marker.name, marker.frame))
              ELSE retimer_data
        /\ report' = "INFO: Added marker"
        /\ UNCHANGED <<objects, selected_objects, fcurves, retimer_active,
                       retimer_snap_frames, modal_handlers>>
        /\ Edit

\* store_initial_keyframe_data_for_object: the captured keys of every F-Curve
StoredKeyframeData(o) == [key \in DOMAIN fcurves[o] |-> fcurves[o][key]]

\* an apply that ends the session and keeps what was captured
ApplyEffectKeepingData ==
    /\ retimer_active' = FALSE
    /\ report' = "INFO: Retiming applied."
    /\ UNCHANGED <<timeline_markers, objects, selected_objects, fcurves,
                   retimer_data, retimer_snap_frames, used>>

\* an apply that puts the captured markers back where they were captured
ApplyEffectMovingMarkers ==
    LET original_marker_positions ==
            Get(retimer_data, "original_markers", EmptyDict)
    IN  /\ retimer_active' = FALSE
        /\ retimer_data' = Pop(Pop(Pop(retimer_data, "objects_temp_keyframe_data"),
                                   "objects_processed"), "original_markers")
        /\ timeline_markers' =
              [i \in DOMAIN timeline_markers |->
                  IF timeline_markers[i].name \in DOMAIN original_marker_positions
                  THEN [name  |-> timeline_markers[i].name,
                        frame |-> original_marker_positions[timeline_markers[i].name]]
                  ELSE timeline_markers[i]]
        /\ report' = "INFO: Retiming applied."
        /\ UNCHANGED <<objects, selected_objects, fcurves,
                       retimer_snap_frames, used>>

\* ANIMATION_RETIMER_OT_ApplyRetiming.execute: what it does to the state
ApplyEffect ==
    /\ retimer_active' = FALSE
    /\ retimer_data' = Pop(Pop(Pop(retimer_data, "objects_temp_keyframe_data"),
                               "objects_processed"), "original_markers")
    /\ report' = "INFO: Retiming applied."
    /\ UNCHANGED <<timeline_markers, objects, selected_objects, fcurves,
                   retimer_snap_frames, used>>

\* ANIMATION_RETIMER_OT_ApplyRetiming: poll() and execute()
ApplyRetiming ==
    /\ retimer_active
    /\ ApplyEffect
    /\ UNCHANGED modal_handlers

\* a failed start that clears the module's dict on its way out
FailedStartClearing(message) ==
    /\ report' = message
    /\ retimer_data' = EmptyDict
    /\ UNCHANGED <<timeline_markers, objects, selected_objects, fcurves,
                   retimer_active, retimer_snap_frames, modal_handlers, used>>

\* execute returning {'CANCELLED'} after self.report({'ERROR'}, message)
FailedStart(message) ==
    /\ report' = message
    /\ UNCHANGED <<timeline_markers, objects, selected_objects, fcurves,
                   retimer_data, retimer_active, retimer_snap_frames,
                   modal_handlers, used>>

\* ANIMATION_RETIMER_OT_RetimeMarker.execute
RetimeMarkerExecute ==
    LET markers == get_ordered_markers(timeline_markers)
        selected == SelectSeq(ObjectOrder,
                        LAMBDA o : o \in selected_objects /\ Animated(o))
        \* the objects store_initial_keyframe_data_for_object returns True for
        processed == SelectSeq(selected, Animated)
        stored  == [o \in Range(processed) |-> StoredKeyframeData(o)]
    IN  IF retimer_active THEN
            ApplyEffect /\ UNCHANGED modal_handlers
        ELSE IF Len(markers) < 2 THEN
            FailedStart("ERROR: Add at least 2 'RT_' prefixed markers first!")
        ELSE IF selected = <<>> THEN
            FailedStart("ERROR: No selected objects with animation data found!")
        ELSE IF processed = <<>> THEN
            /\ report' = "ERROR: Could not store keyframe data for any selected object."
            /\ retimer_data' = EmptyDict
            /\ UNCHANGED <<timeline_markers, objects, selected_objects, fcurves,
                           retimer_active, retimer_snap_frames, modal_handlers,
                           used>>
        ELSE
            /\ used.sessions < MaxSessions
            /\ Len(modal_handlers) < MaxHandlers
            /\ retimer_data' =
                  Put(Put(Put(retimer_data,
                      "original_markers", MarkerPositions(markers)),
                      "objects_temp_keyframe_data", stored),
                      "objects_processed", processed)
            /\ modal_handlers' = Append(modal_handlers,
                  [_last_marker_positions |-> MarkerPositions(markers)])
            /\ retimer_active' = TRUE
            /\ report' = NoReport
            /\ used' = [used EXCEPT !.sessions = @ + 1]
            /\ UNCHANGED <<timeline_markers, objects, selected_objects, fcurves,
                           retimer_snap_frames>>

\* the writes that go wrong in one pass over the curves: a fault per object
\* and F-Curve key
NoFaults == [o \in Objects |-> [key \in FCurveKeys |-> NoFault]]

\* one more pass with a write going wrong, while the run has faults left
Faulty(faults) ==
    IF faults = NoFaults THEN UNCHANGED used
    ELSE /\ used.faults < MaxFaults
         /\ used' = [used EXCEPT !.faults = @ + 1]

\* a pass over the objects that ends at the first object it cannot read or
\* the first F-Curve it cannot clear
RetimedFCurvesStopping(original_segments, current_segments, faults) ==
    LET objects_to_retime == Get(retimer_data, "objects_processed", <<>>)
        temp == Get(retimer_data, "objects_temp_keyframe_data", EmptyDict)
        stops(i) ==
            LET o == objects_to_retime[i]
            IN  \/ ~Animated(o)
                \/ o \notin DOMAIN temp
                \/ \E key \in DOMAIN fcurves[o] \cap DOMAIN temp[o] :
                      ClearFails(fcurves[o][key], faults[o][key])
        reached(o) ==
            \E i \in DOMAIN objects_to_retime :
                /\ objects_to_retime[i] = o
                /\ \A j \in 1..(i - 1) : ~stops(j)
    IN  [o \in Objects |->
            IF reached(o) /\ Animated(o) /\ o \in DOMAIN temp
            THEN [key \in DOMAIN fcurves[o] |->
                    IF key \in DOMAIN temp[o]
                    THEN RetimeFCurve(fcurves[o][key], temp[o][key],
                                      original_segments, current_segments,
                                      retimer_snap_frames, faults[o][key])
                    ELSE fcurves[o][key]]
            ELSE fcurves[o]]

\* a pass over the objects that writes the last tracked object only
RetimedFCurvesLastOnly(original_segments, current_segments, faults) ==
    LET objects_to_retime == Get(retimer_data, "objects_processed", <<>>)
        temp == Get(retimer_data, "objects_temp_keyframe_data", EmptyDict)
    IN  [o \in Objects |->
            IF /\ objects_to_retime # <<>>
               /\ o = objects_to_retime[Len(objects_to_retime)]
               /\ Animated(o)
               /\ o \in DOMAIN temp
            THEN [key \in DOMAIN fcurves[o] |->
                    IF key \in DOMAIN temp[o]
                    THEN RetimeFCurve(fcurves[o][key], temp[o][key],
                                      original_segments, current_segments,
                                      retimer_snap_frames, faults[o][key])
                    ELSE fcurves[o][key]]
            ELSE fcurves[o]]

\* process_retiming from "3. Process Each Object" on: the F-Curves afterwards
RetimedFCurves(original_segments, current_segments, faults) ==
    LET objects_to_retime == Get(retimer_data, "objects_processed", <<>>)
        temp == Get(retimer_data, "objects_temp_keyframe_data", EmptyDict)
    IN  [o \in Objects |->
            IF /\ o \in Range(objects_to_retime)
               /\ Animated(o)
               /\ o \in DOMAIN temp
            THEN [key \in DOMAIN fcurves[o] |->
                    IF key \in DOMAIN temp[o]
                    THEN RetimeFCurve(fcurves[o][key], temp[o][key],
                                      original_segments, current_segments,
                                      retimer_snap_frames, faults[o][key])
                    ELSE fcurves[o][key]]
            ELSE fcurves[o]]

\* process_retiming from "2. Recalculate Segment Mappings" on: the F-Curves
\* afterwards
ProcessedFCurves(faults) ==
    LET markers == get_ordered_markers(timeline_markers)
        current_positions == MarkerPositions(markers)
        original_marker_positions ==
            Get(retimer_data, "original_markers", EmptyDict)
        sorted_marker_names ==
            SortedMarkerNames(markers, original_marker_positions)
    IN  IF DOMAIN original_marker_positions = {}
           \/ Len(sorted_marker_names) < 2
           \/ Get(retimer_data, "objects_processed", <<>>) = <<>>
        THEN fcurves
        ELSE RetimedFCurves(
                OriginalSegments(sorted_marker_names, original_marker_positions),
                CurrentSegments(sorted_marker_names, current_positions),
                faults)

\* a process_retiming that recomputes and does not keep the positions it
\* has polled
process_retiming_not_recording(h, faults) ==
    LET markers == get_ordered_markers(timeline_markers)
        current_positions == MarkerPositions(markers)
    IN  IF Len(markers) < 2
           \/ current_positions = modal_handlers[h]._last_marker_positions
        THEN UNCHANGED <<modal_handlers, fcurves>>
        ELSE /\ modal_handlers' = modal_handlers
             /\ fcurves' = ProcessedFCurves(faults)

\* a process_retiming that recomputes whether or not a marker has moved
process_retiming_always(h, faults) ==
    LET markers == get_ordered_markers(timeline_markers)
        current_positions == MarkerPositions(markers)
    IN  IF Len(markers) < 2
        THEN UNCHANGED <<modal_handlers, fcurves>>
        ELSE /\ modal_handlers' = [modal_handlers EXCEPT
                    ![h]._last_marker_positions = current_positions]
             /\ fcurves' = ProcessedFCurves(faults)

\* process_retiming of the operator modal_handlers[h]
process_retiming(h, faults) ==
    LET markers == get_ordered_markers(timeline_markers)
        current_positions == MarkerPositions(markers)
    IN  IF Len(markers) < 2
           \/ current_positions = modal_handlers[h]._last_marker_positions
        THEN UNCHANGED <<modal_handlers, fcurves>>
        ELSE /\ modal_handlers' = [modal_handlers EXCEPT
                    ![h]._last_marker_positions = current_positions]
             /\ fcurves' = ProcessedFCurves(faults)

RemoveAt(s, i) == SubSeq(s, 1, i - 1) \o SubSeq(s, i + 1, Len(s))

\* modal() on any event once wm.retimer_active is off: the operator ends
ModalStop(h) ==
    /\ h \in DOMAIN modal_handlers
    /\ ~retimer_active
    /\ modal_handlers' = RemoveAt(modal_handlers, h)
    /\ report' = NoReport
    /\ UNCHANGED <<timeline_markers, objects, selected_objects, fcurves,
                   retimer_data, retimer_active, retimer_snap_frames, used>>

\* modal() on a TIMER event
ModalTimer(h, faults) ==
    /\ h \in DOMAIN modal_handlers
    /\ retimer_active
    /\ Faulty(faults)
    /\ process_retiming(h, faults)
    /\ report' = NoReport
    /\ UNCHANGED <<timeline_markers, objects, selected_objects, retimer_data,
                   retimer_active, retimer_snap_frames>>

\* modal() on RET or NUMPAD_ENTER pressed
ModalEnter(h) ==
    /\ h \in DOMAIN modal_handlers
    /\ retimer_active
    /\ ApplyEffect
    /\ modal_handlers' = RemoveAt(modal_handlers, h)

\* a restore that ends at the first object of objects_to_restore that is
\* not there or has no action
RestoredFCurvesStopping(faults) ==
    LET objects_to_restore == Get(retimer_data, "objects_processed", <<>>)
        temp == Get(retimer_data, "objects_temp_keyframe_data", EmptyDict)
        reached(o) ==
            \E i \in DOMAIN objects_to_restore :
                /\ objects_to_restore[i] = o
                /\ \A j \in 1..(i - 1) : Animated(objects_to_restore[j])
    IN  [o \in Objects |->
            IF reached(o) /\ Animated(o) /\ o \in DOMAIN temp
            THEN [key \in DOMAIN fcurves[o] |->
                    IF key \in DOMAIN temp[o]
                    THEN RestoreFCurve(fcurves[o][key], temp[o][key], faults[o][key])
                    ELSE fcurves[o][key]]
            ELSE fcurves[o]]

\* restore_from_original_for_object for every object of objects_to_restore
RestoredFCurves(faults) ==
    LET objects_to_restore == Get(retimer_data, "objects_processed", <<>>)
        temp == Get(retimer_data, "objects_temp_keyframe_data", EmptyDict)
    IN  [o \in Objects |->
            IF /\ o \in Range(objects_to_restore)
               /\ objects[o] # "gone"
               /\ Animated(o)
               /\ o \in DOMAIN temp
            THEN [key \in DOMAIN fcurves[o] |->
                    IF key \in DOMAIN temp[o]
                    THEN RestoreFCurve(fcurves[o][key], temp[o][key], faults[o][key])
                    ELSE fcurves[o][key]]
            ELSE fcurves[o]]

\* a marker restore that moves the markers back and removes none
RestoredMarkersKeepingAll(original_marker_positions) ==
    [i \in DOMAIN timeline_markers |->
        IF timeline_markers[i].name \in DOMAIN original_marker_positions
        THEN [name  |-> timeline_markers[i].name,
              frame |-> original_marker_positions[timeline_markers[i].name]]
        ELSE timeline_markers[i]]

\* "Restore Markers": every original marker still there gets its original
\* frame, every other RT_ marker is removed
RestoredMarkers(original_marker_positions) ==
    IF DOMAIN original_marker_positions = {} \/ timeline_markers = <<>>
    THEN timeline_markers
    ELSE LET kept == SelectSeq(timeline_markers,
                         LAMBDA m : m.name \in DOMAIN original_marker_positions)
         IN  [i \in DOMAIN kept |->
                [name  |-> kept[i].name,
                 frame |-> original_marker_positions[kept[i].name]]]

\* ANIMATION_RETIMER_OT_CancelRetiming.execute: what it does to the state
CancelEffect(faults) ==
    LET objects_to_restore == Get(retimer_data, "objects_processed", <<>>)
        original_marker_positions ==
            Get(retimer_data, "original_markers", EmptyDict)
        stored_keyframe_data_exists ==
            /\ "objects_temp_keyframe_data" \in DOMAIN retimer_data
            /\ DOMAIN retimer_data["objects_temp_keyframe_data"] # {}
    IN  IF /\ objects_to_restore = <<>>
           /\ DOMAIN original_marker_positions = {}
           /\ ~stored_keyframe_data_exists
        THEN /\ report' = "WARNING: No retiming data found to cancel/discard."
             /\ retimer_active' = FALSE
             /\ UNCHANGED <<timeline_markers, objects, selected_objects, fcurves,
                            retimer_data, retimer_snap_frames, used>>
        ELSE /\ Faulty(faults)
             /\ retimer_active' = FALSE
             /\ fcurves' = IF stored_keyframe_data_exists
                           THEN RestoredFCurves(faults) ELSE fcurves
             /\ timeline_markers' = RestoredMarkers(original_marker_positions)
             /\ retimer_data' =
                   Pop(Pop(Pop(retimer_data, "objects_temp_keyframe_data"),
                           "objects_processed"), "original_markers")
             /\ report' = "INFO: Retiming cancelled, changes discarded."
             /\ UNCHANGED <<objects, selected_objects, retimer_snap_frames>>

\* ANIMATION_RETIMER_OT_CancelRetiming invoked from the panel or a script
CancelRetiming(faults) ==
    /\ CancelEffect(faults)
    /\ UNCHANGED modal_handlers

\* modal() on ESC pressed
ModalEsc(h, faults) ==
    /\ h \in DOMAIN modal_handlers
    /\ retimer_active
    /\ CancelEffect(faults)
    /\ modal_handlers' = RemoveAt(modal_handlers, h)

\* ANIMATION_RETIMER_OT_DeleteMarker: poll() and execute() for a marker
\* that exists
DeleteMarker(i) ==
    /\ ~retimer_active
    /\ i \in DOMAIN timeline_markers
    /\ timeline_markers' = RemoveAt(timeline_markers, i)
    /\ retimer_data' =
          IF "original_markers" \in DOMAIN retimer_data
          THEN Put(retimer_data, "original_markers",
                   Pop(retimer_data["original_markers"], timeline_markers[i].name))
          ELSE retimer_data
    /\ report' = NoReport
    /\ UNCHANGED <<objects, selected_objects, fcurves, retimer_active,
                   retimer_snap_frames, modal_handlers>>
    /\ Edit

\* ANIMATION_RETIMER_OT_ClearMarkers: poll() and execute()
ClearMarkers ==
    /\ ~retimer_active
    /\ IF timeline_markers = <<>>
       THEN /\ report' = "ERROR: No scene or timeline markers found."
            /\ UNCHANGED <<timeline_markers, retimer_data, used>>
       ELSE /\ timeline_markers' = <<>>
            /\ retimer_data' = Pop(retimer_data, "original_markers")
            /\ report' = "INFO: Cleared 'RT_' markers."
            /\ Edit
    /\ UNCHANGED <<objects, selected_objects, fcurves, retimer_active,
                   retimer_snap_frames, modal_handlers>>

---------------------------------------------------------------------------
(* The user and the host                                                   *)

\* the user drags marker i to another frame
MoveMarker(i, frame) ==
    /\ i \in DOMAIN timeline_markers
    /\ timeline_markers[i].frame # frame
    /\ timeline_markers' = [timeline_markers EXCEPT ![i].frame = frame]
    /\ report' = NoReport
    /\ UNCHANGED <<objects, selected_objects, fcurves, retimer_data,
                   retimer_active, retimer_snap_frames, modal_handlers>>
    /\ Edit

\* the user flips "Snap Keys to Whole Frames".  The flag is read by
\* process_retiming only, so flips outside a session are left out.
SetSnap ==
    /\ retimer_active
    /\ retimer_snap_frames' = ~retimer_snap_frames
    /\ report' = NoReport
    /\ UNCHANGED <<timeline_markers, objects, selected_objects, fcurves,
                   retimer_data, retimer_active, modal_handlers, used>>

Next ==
    \/ \E frame \in Frames : AddMarker(frame)
    \/ \E i \in 1..MaxMarkers : DeleteMarker(i)
    \/ ClearMarkers
    \/ \E i \in 1..MaxMarkers, frame \in Frames : MoveMarker(i, frame)
    \/ SetSnap
    \/ RetimeMarkerExecute
    \/ ApplyRetiming
    \/ CancelRetiming(NoFaults)
    \/ \E h \in 1..MaxHandlers : ModalStop(h)
    \/ \E h \in 1..MaxHandlers : ModalTimer(h, NoFaults)
    \/ \E h \in 1..MaxHandlers : ModalEnter(h)
    \/ \E h \in 1..MaxHandlers : ModalEsc(h, NoFaults)

Spec == Init /\ [][Next]_vars

\* the faults the code's own handlers expect of the host: remove() raising
\* ReferenceError after some keys are gone, or one insert() raising
Faults ==
    {NoFault}
        \cup {[clear |-> k, skip |-> {}] : k \in 0..(MaxKeys - 1)}
        \cup {[clear |-> -1, skip |-> {i}] : i \in 1..MaxKeys}

\* the F-Curves a pass writes: those with captured keys
TrackedCurves ==
    LET temp == Get(retimer_data, "objects_temp_keyframe_data", EmptyDict)
    IN  {c \in Objects \X FCurveKeys :
            c[1] \in DOMAIN temp /\ c[2] \in DOMAIN temp[c[1]]}

\* a pass in which nothing goes wrong, or the write of one F-Curve does
FaultChoices ==
    {NoFaults} \cup
    {[NoFaults EXCEPT ![c[1]][c[2]] = f] :
        c \in TrackedCurves, f \in Faults \ {NoFault}}

\* The selection and the objects without F-Curves play no part in a write
\* going wrong: the faulty host is explored with every object selected and
\* B without animation.
InitFaulty == Init /\ selected_objects = Objects /\ objects["B"] = "noanim"

NextFaulty ==
    \/ \E frame \in Frames : AddMarker(frame)
    \/ \E i \in 1..MaxMarkers : DeleteMarker(i)
    \/ ClearMarkers
    \/ \E i \in 1..MaxMarkers, frame \in Frames : MoveMarker(i, frame)
    \/ SetSnap
    \/ RetimeMarkerExecute
    \/ ApplyRetiming
    \/ \E faults \in FaultChoices : CancelRetiming(faults)
    \/ \E h \in 1..MaxHandlers : ModalStop(h)
    \/ \E h \in 1..MaxHandlers, faults \in FaultChoices : ModalTimer(h, faults)
    \/ \E h \in 1..MaxHandlers : ModalEnter(h)
    \/ \E h \in 1..MaxHandlers, faults \in FaultChoices : ModalEsc(h, faults)

SpecFaulty == InitFaulty /\ [][NextFaulty]_vars

---------------------------------------------------------------------------
(* The mapping on its own: one tick of a running session, over marker      *)
(* positions and key times taken from wider sets than the scene above      *)

\* frames of a timeline of 100 frames at which markers are put, the frames
\* a marker is dragged to if it is not left where it was, and the times of
\* the captured key
MaxMapMarkers == 3
MapOriginalFrames == {0, 22, 50, 100}
MapDragFrames == {0, 80}
MapTimes == {0 - 10, 15, 25, 50, 75, 110}

\* the markers AddMarker makes when called at orig[1], orig[2], ... in turn,
\* dragged to the frames cur
MapMarkers(orig, cur) ==
    [i \in DOMAIN orig |->
        [name  |-> [f |-> orig[i],
                    i |-> Cardinality({j \in 1..(i - 1) : orig[j] = orig[i]})],
         frame |-> cur[i]]]

\* A session started with the markers at orig and one key at time t on the
\* F-Curve of A.  The user has dragged every marker one frame on, the timer
\* has fired, and the user has then dragged the markers to cur.
InitMap ==
    \E n \in 2..MaxMapMarkers :
      \E orig \in [1..n -> MapOriginalFrames], t \in MapTimes, snap \in BOOLEAN :
      \E cur \in {c \in [1..n -> MapOriginalFrames \cup MapDragFrames] :
                    \A i \in 1..n : c[i] = orig[i] \/ c[i] \in MapDragFrames} :
        LET atStart == MapMarkers(orig, orig)
            seen    == MapMarkers(orig, [i \in 1..n |-> orig[i] + 1])
            original_marker_positions == MarkerPositions(atStart)
            names == SortedMarkerNames(get_ordered_markers(seen),
                                       original_marker_positions)
            key == <<"location", 0>>
            captured == <<Key(t, 1)>>
        IN  /\ timeline_markers = MapMarkers(orig, cur)
            /\ objects = [o \in Objects |-> IF o = "A" THEN "ok" ELSE "noanim"]
            /\ selected_objects = {"A"}
            /\ fcurves = [o \in Objects |->
                  [k \in IF o = "A" THEN FCurveKeys ELSE {} |->
                      RetimeFCurve(captured, captured,
                          OriginalSegments(names, original_marker_positions),
                          CurrentSegments(names, MarkerPositions(seen)),
                          TRUE, NoFault)]]
            /\ retimer_data =
                  Put(Put(Put(InitialRetimerData,
                      "original_markers", original_marker_positions),
                      "objects_temp_keyframe_data", [o \in {"A"} |-> [k \in FCurveKeys |-> captured]]),
                      "objects_processed", <<"A">>)
            /\ retimer_active = TRUE
            /\ retimer_snap_frames = snap
            /\ modal_handlers = <<[_last_marker_positions |-> MarkerPositions(seen)]>>
            /\ report = NoReport
            /\ used = [sessions |-> 1, edits |-> 0, faults |-> 0]

NextMap == \E h \in 1..MaxHandlers : ModalTimer(h, NoFaults)

SpecMap == InitMap /\ [][NextMap]_vars

---------------------------------------------------------------------------
(* Properties of a session                                                 *)

\* the captured key lists and the captured marker positions
Snapshot == Get(retimer_data, "objects_temp_keyframe_data", EmptyDict)
CapturedPositions == Get(retimer_data, "original_markers", EmptyDict)

\* the steps that start a session, keep it running, and cancel it
StartStep == ~retimer_active /\ retimer_active'
RunningStep == retimer_active /\ retimer_active'
CancelStep ==
    retimer_active /\ report' = "INFO: Retiming cancelled, changes discarded."

\* C1: what a session captures of a curve is the key list the curve has when
\* the session starts, no marker move, snap change or tick alters what was
\* captured, and cancel leaves every captured curve of an object that still
\* exists with exactly the captured list: the same keys, equal in time,
\* value, interpolation, handles and kind, in the same order.
C1_CancelRestoresCurves ==
    [][ /\ StartStep =>
              \A o \in DOMAIN Snapshot' : Snapshot'[o] = fcurves[o]
        /\ RunningStep => Snapshot' = Snapshot
        /\ CancelStep =>
              \A o \in DOMAIN Snapshot :
                  objects'[o] # "gone" =>
                      \A key \in DOMAIN Snapshot[o] :
                          fcurves'[o][key] = Snapshot[o][key]
      ]_vars

\* a cancelled session whose last tick saw the markers away from where
\* cancel has put them back
C1_Witness ==
    /\ report = "INFO: Retiming cancelled, changes discarded."
    /\ \E h \in DOMAIN modal_handlers :
          modal_handlers[h]._last_marker_positions
              # MarkerPositions(timeline_markers)
    /\ Len(fcurves["A"][<<"location", 0>>]) = MaxKeys

\* C2: the positions a session captures are those of the markers when it
\* starts and stay as captured while it runs; cancel of a running session
\* leaves every marker that was captured and is still there at its captured
\* position, removes none of them, and removes every marker that was not
\* captured.
C2_CancelRestoresMarkers ==
    [][ /\ StartStep => CapturedPositions' = MarkerPositions(timeline_markers)
        /\ RunningStep => CapturedPositions' = CapturedPositions
        /\ CancelStep =>
              LET after == MarkerPositions(timeline_markers')
              IN  \A i \in DOMAIN timeline_markers :
                      LET nm == timeline_markers[i].name
                      IN  IF nm \in DOMAIN CapturedPositions
                          THEN /\ nm \in DOMAIN after
                               /\ after[nm] = CapturedPositions[nm]
                          ELSE nm \notin DOMAIN after
      ]_vars

\* a cancelled session whose last tick saw three markers, one of them made
\* during the session, and a captured marker away from its position
C2_Witness ==
    /\ report = "INFO: Retiming cancelled, changes discarded."
    /\ Len(timeline_markers) = 2
    /\ \E h \in DOMAIN modal_handlers :
          LET seen == modal_handlers[h]._last_marker_positions
          IN  /\ Cardinality(DOMAIN seen) = 3
              /\ \E i \in DOMAIN timeline_markers :
                    seen[timeline_markers[i].name] # timeline_markers[i].frame

\* the complete new key list of every curve: what a tick, or a cancel, of the
\* present state writes when no write goes wrong
TickFCurves == ProcessedFCurves(NoFaults)
CancelFCurves == RestoredFCurves(NoFaults)

\* C3: replacement is atomic: after any step, a write that went wrong
\* included, every curve holds the key list it had before the step or the
\* complete new list of the tick or cancel that wrote it.
C3_AtomicReplacement ==
    [][ \A o \in Objects : \A key \in DOMAIN fcurves[o] :
            \/ fcurves'[o][key] = fcurves[o][key]
            \/ RunningStep /\ fcurves'[o][key] = TickFCurves[o][key]
            \/ CancelStep /\ fcurves'[o][key] = CancelFCurves[o][key]
      ]_vars

HasCurves(o) == objects[o] = "ok" /\ DOMAIN fcurves[o] # {}

\* C5: a start from idle with fewer than 2 markers reports the missing
\* markers; with 2 or more and no selected object that has animation curves
\* it reports the missing animation; either way no session and no modal
\* operator is started.
C5_StartFailsWithoutMarkersOrCurves ==
    [][ (~retimer_active /\ RetimeMarkerExecute) =>
            /\ Len(timeline_markers) < 2 =>
                  /\ report' = "ERROR: Add at least 2 'RT_' prefixed markers first!"
                  /\ ~retimer_active'
                  /\ modal_handlers' = modal_handlers
            /\ (Len(timeline_markers) >= 2
                    /\ \A o \in selected_objects : ~HasCurves(o)) =>
                  /\ report' = "ERROR: No selected objects with animation data found!"
                  /\ ~retimer_active'
                  /\ modal_handlers' = modal_handlers
      ]_vars

---------------------------------------------------------------------------
(* Properties of the mapping                                               *)

\* The one captured key of the mapping's sessions: its captured time and the
\* time the curve has it at
CapturedTime == Snapshot["A"][<<"location", 0>>][1].x
MappedTime == fcurves["A"][<<"location", 0>>][1].x

\* the segments a tick of the present state builds
SegmentNames ==
    SortedMarkerNames(get_ordered_markers(timeline_markers), CapturedPositions)
OSeg == OriginalSegments(SegmentNames, CapturedPositions)
CSeg == CurrentSegments(SegmentNames, MarkerPositions(timeline_markers))

\* the last tick has seen the markers where they are
Ticked ==
    /\ retimer_active
    /\ \E h \in DOMAIN modal_handlers :
          modal_handlers[h]._last_marker_positions
              = MarkerPositions(timeline_markers)

\* ... and has written the mapped time unsnapped
Mapped == Ticked /\ ~retimer_snap_frames /\ Len(OSeg) >= 1

Inside(t, segment) == FLe(FromInt(segment[1]), t) /\ FLe(t, FromInt(segment[2]))
Degenerate(segment) == segment[2] - segment[1] = 0
InDegenerateBefore(t, i) ==
    \E j \in 1..(i - 1) : Inside(t, OSeg[j]) /\ Degenerate(OSeg[j])
FirstWith(t, i) == Inside(t, OSeg[i]) /\ \A j \in 1..(i - 1) : ~Inside(t, OSeg[j])

\* currentStart + ((t - originalStart) / (originalEnd - originalStart))
\*                    * (currentEnd - currentStart), in the floats of the code
SegmentFormula(t, i) ==
    FAdd(FromInt(CSeg[i][1]),
         FMulInt(FDivInt(FSub(t, FromInt(OSeg[i][1])), OSeg[i][2] - OSeg[i][1]),
                 CSeg[i][2] - CSeg[i][1]))

\* C7 (as the code has it): a captured time t in a segment i of non-zero
\* original length is mapped by the formula of segment i, whatever the
\* current segment (stretched, collapsed or inverted), unless t also lies in
\* an earlier segment of zero original length; with markers at 0, 50, 100
\* moved to 0, 80, 100, time 25 goes to 40 and time 75 to 90.
C7_SegmentFormula ==
    Mapped =>
        /\ \A i \in DOMAIN OSeg :
              (Inside(CapturedTime, OSeg[i]) /\ ~Degenerate(OSeg[i])
                    /\ ~InDegenerateBefore(CapturedTime, i))
                 => MappedTime = SegmentFormula(CapturedTime, i)
        /\ (OSeg = <<<<0, 50>>, <<50, 100>>>> /\ CSeg = <<<<0, 80>>, <<80, 100>>>>)
              => /\ CapturedTime = FromInt(25) => MappedTime = FromInt(40)
                 /\ CapturedTime = FromInt(75) => MappedTime = FromInt(90)

\* markers at 0, 50, 100 moved to 0, 80, 100 and the key of time 25 at 40
C7_Witness ==
    /\ Mapped
    /\ OSeg = <<<<0, 50>>, <<50, 100>>>>
    /\ CSeg = <<<<0, 80>>, <<80, 100>>>>
    /\ CapturedTime = FromInt(25)
    /\ MappedTime = FromInt(40)

\* C7 (as stated): a captured time t in any segment i of non-zero original
\* length is mapped by the formula of segment i.
C7_FormulaOfAnySegment ==
    Mapped =>
        \A i \in DOMAIN OSeg :
            (Inside(CapturedTime, OSeg[i]) /\ ~Degenerate(OSeg[i]))
               => MappedTime = SegmentFormula(CapturedTime, i)

\* every marker is captured and at its captured position
IdentityConfiguration ==
    \A i \in DOMAIN timeline_markers :
        /\ timeline_markers[i].name \in DOMAIN CapturedPositions
        /\ timeline_markers[i].frame = CapturedPositions[timeline_markers[i].name]

\* t is outside the segments or at an original marker position
OutsideOrOnMarker(t) ==
    \/ \A i \in DOMAIN OSeg : ~Inside(t, OSeg[i])
    \/ \E i \in DOMAIN OSeg : t = FromInt(OSeg[i][1]) \/ t = FromInt(OSeg[i][2])

\* x * 2^k
Scaled(x, k) == IF x.m = <<>> THEN x ELSE [x EXCEPT !.e = @ + k]

C9_TranslationOutside ==
    Mapped =>
        \A t \in MapTimes :
            CapturedTime = FromInt(t) =>
                /\ t < OSeg[1][1] =>
                      MappedTime = FromInt(t + (CSeg[1][1] - OSeg[1][1]))
                /\ t > OSeg[Len(OSeg)][2] =>
                      MappedTime = FromInt(t + (CSeg[Len(CSeg)][2]
                                                  - OSeg[Len(OSeg)][2]))

\* a time after the last marker, which has moved while the first has not
C9_Witness ==
    /\ Mapped
    /\ FLt(FromInt(OSeg[Len(OSeg)][2]), CapturedTime)
    /\ CSeg[Len(CSeg)][2] # OSeg[Len(OSeg)][2]
    /\ CSeg[1][1] = OSeg[1][1]
    /\ MappedTime # CapturedTime

\* C10 (as the code has it): a time in segments of zero original length is
\* mapped to the current start of the first segment that contains it if
\* that segment has zero original length, and to its current end if not.
C10_DegenerateToFirstStart ==
    Mapped =>
        \A i \in DOMAIN OSeg :
            (Degenerate(OSeg[i]) /\ Inside(CapturedTime, OSeg[i])) =>
                \A j \in 1..i :
                    FirstWith(CapturedTime, j) =>
                        MappedTime = IF Degenerate(OSeg[j])
                                     THEN FromInt(CSeg[j][1])
                                     ELSE FromInt(CSeg[j][2])

\* a time in a first segment of zero original length whose start has moved
C10_Witness ==
    /\ Mapped
    /\ Degenerate(OSeg[1])
    /\ Inside(CapturedTime, OSeg[1])
    /\ CSeg[1][1] # OSeg[1][1]
    /\ MappedTime = FromInt(CSeg[1][1])

\* C10 (as stated): a time in a segment of zero original length is mapped to
\* the current start of that segment, wherever the segment is in the list.
C10_DegenerateToOwnStart ==
    Mapped =>
        \A i \in DOMAIN OSeg :
            (Degenerate(OSeg[i]) /\ Inside(CapturedTime, OSeg[i])) =>
                MappedTime = FromInt(CSeg[i][1])

\* the segments of OSeg that hold the time t
Holders(t) == {i \in DOMAIN OSeg : Inside(t, OSeg[i])}

\* C11: the lookup gives a time to the segment of lowest index that holds
\* it, so a time on the boundary shared by segments i and i + 1 goes to
\* segment i or an earlier one and never to i + 1; a time below the first
\* start is 'before' and a time above the last end is 'after'.
C11_LowestSegment ==
    Len(OSeg) >= 1 =>
        LET t == CapturedTime
            found == find_segment(t, OSeg)
        IN  /\ Holders(t) # {} =>
                  /\ found.kind = "index"
                  /\ found.idx \in Holders(t)
                  /\ \A j \in Holders(t) : found.idx <= j
            /\ \A i \in 1..(Len(OSeg) - 1) :
                  (t = FromInt(OSeg[i][2]) /\ t = FromInt(OSeg[i + 1][1]))
                      => found.kind = "index" /\ found.idx <= i
            /\ FLt(t, FromInt(OSeg[1][1])) => found = SegBefore
            /\ FLt(FromInt(OSeg[Len(OSeg)][2]), t) => found = SegAfter

\* a tick has mapped a time on the boundary shared by two segments of
\* non-zero length, looked up in the first of them
C11_Witness ==
    /\ Mapped
    /\ Len(OSeg) = 2
    /\ ~Degenerate(OSeg[1]) /\ ~Degenerate(OSeg[2])
    /\ CapturedTime = FromInt(OSeg[1][2])
    /\ find_segment(CapturedTime, OSeg) = SegIndex(1)
    /\ CSeg # OSeg

---------------------------------------------------------------------------
(* Snapping and merging on their own: one tick of a running session over   *)
(* several captured keys at times that are not whole frames                *)

\* the times of the captured keys, in tenths of a frame, the frames at which
\* the two markers are put and the frame a marker is dragged to if it is not
\* left where it was
MaxSnapKeys == 3
SnapTenths == {0 - 5, 25, 245, 246, 247, 253, 320, 380}
SnapOriginalFrames == {30, 40}
SnapDragFrames == {35}

\* a keyframe point whose co.x is the float nearest to tenths / 10
KeyTenth(tenths, id) ==
    [Key(0, id) EXCEPT !.x = FDivInt(FromInt(tenths), 10)]

\* a curve with keys at the given tenths, sorted by time
RECURSIVE KeysAtTenths(_, _)
KeysAtTenths(tenths, id) ==
    IF tenths = {} THEN <<>>
    ELSE LET t == CHOOSE x \in tenths : \A z \in tenths : x <= z
         IN  <<KeyTenth(t, id)>> \o KeysAtTenths(tenths \ {t}, id + 1)

\* A session started with the markers at orig and the keys captured on the
\* F-Curve of A.  The user has dragged every marker one frame on, the timer
\* has fired, and the user has then dragged the markers to cur.
InitSnap ==
    \E orig \in [1..2 -> SnapOriginalFrames], snap \in BOOLEAN :
      \E cur \in {c \in [1..2 -> SnapOriginalFrames \cup SnapDragFrames] :
                    \A i \in 1..2 : c[i] = orig[i] \/ c[i] \in SnapDragFrames} :
      \E tenths \in {S \in SUBSET SnapTenths : Cardinality(S) \in 2..MaxSnapKeys} :
        LET atStart == MapMarkers(orig, orig)
            seen    == MapMarkers(orig, [i \in 1..2 |-> orig[i] + 1])
            original_marker_positions == MarkerPositions(atStart)
            names == SortedMarkerNames(get_ordered_markers(seen),
                                       original_marker_positions)
            captured == KeysAtTenths(tenths, 1)
        IN  /\ timeline_markers = MapMarkers(orig, cur)
            /\ objects = [o \in Objects |-> IF o = "A" THEN "ok" ELSE "noanim"]
            /\ selected_objects = {"A"}
            /\ fcurves = [o \in Objects |->
                  [k \in IF o = "A" THEN FCurveKeys ELSE {} |->
                      RetimeFCurve(captured, captured,
                          OriginalSegments(names, original_marker_positions),
                          CurrentSegments(names, MarkerPositions(seen)),
                          TRUE, NoFault)]]
            /\ retimer_data =
                  Put(Put(Put(InitialRetimerData,
                      "original_markers", original_marker_positions),
                      "objects_temp_keyframe_data", [o \in {"A"} |-> [k \in FCurveKeys |-> captured]]),
                      "objects_processed", <<"A">>)
            /\ retimer_active = TRUE
            /\ retimer_snap_frames = snap
            /\ modal_handlers = <<[_last_marker_positions |-> MarkerPositions(seen)]>>
            /\ report = NoReport
            /\ used = [sessions |-> 1, edits |-> 0, faults |-> 0]

NextSnap == \E h \in 1..MaxHandlers : ModalTimer(h, NoFaults)

SpecSnap == InitSnap /\ [][NextSnap]_vars

---------------------------------------------------------------------------
(* Properties of snapping and merging                                      *)

\* the captured keys of the F-Curve of A, its keys as they are, and the
\* captured keys with the times the markers as they are map them to
Captured == Snapshot["A"][<<"location", 0>>]
Live == fcurves["A"][<<"location", 0>>]
Candidates == CalculatedNewKeys(Captured, OSeg, CSeg)

\* the last tick has seen the markers where they are and has written the
\* keys snapped
Snapped == Ticked /\ retimer_snap_frames /\ Len(OSeg) >= 1

\* what a key carries besides its time
Fields(k) == <<k.y, k.interp, k.hl, k.hr, k.type>>

Half == FDivInt(FromInt(1), 2)
TenthsTime(tenths) == FDivInt(FromInt(tenths), 10)

\* a float that is a whole number, and one that is an even whole number
WholeTime(x) == x = FZero \/ x.e >= 0
EvenTime(x) == x = FZero \/ x.e >= 1

\* C12 (as the code has it): with snapping on, every mapped time has a key
\* at the whole frame nearest to it, and a mapped time halfway between two
\* whole frames has it at the even one: 2.5 goes to 2, 24.5 to 24 and -0.5
\* to 0.
C12_RoundHalfEven ==
    Snapped =>
        \A i \in DOMAIN Candidates :
            \E k \in DOMAIN Live :
                LET d == FAbs(FSub(Candidates[i].x, Live[k].x))
                IN  /\ WholeTime(Live[k].x)
                    /\ FLt(d, Half) \/ (d = Half /\ EvenTime(Live[k].x))

\* a snapped tick over keys mapped to 2.5 and 24.5: keys at 2 and 24, none
\* at 3 or 25
C12_Witness ==
    /\ Snapped
    /\ \E i \in DOMAIN Candidates : Candidates[i].x = TenthsTime(25)
    /\ \E i \in DOMAIN Candidates : Candidates[i].x = TenthsTime(245)
    /\ {Live[k].x : k \in DOMAIN Live} = {FromInt(2), FromInt(24)}

\* C12 (as stated): with snapping on, every mapped time has a key at the
\* whole frame nearest to it, and a mapped time halfway between two whole
\* frames has it at the one farther from zero.
C12_RoundHalfAwayFromZero ==
    Snapped =>
        \A i \in DOMAIN Candidates :
            \E k \in DOMAIN Live :
                LET d == FAbs(FSub(Candidates[i].x, Live[k].x))
                IN  /\ WholeTime(Live[k].x)
                    /\ \/ FLt(d, Half)
                       \/ d = Half /\ FLt(FAbs(Candidates[i].x), FAbs(Live[k].x))

\* the whole frames the mapped times round to, the candidates of a frame and
\* the distance of a candidate from it
Targets == {PyRound(Candidates[i].x) : i \in DOMAIN Candidates}
Group(n) == {i \in DOMAIN Candidates : PyRound(Candidates[i].x) = n}
Distance(i, n) == FAbs(FSub(Candidates[i].x, FromInt(n)))

\* the candidate of frame n that is closest to it, the earliest of the
\* closest in captured order
Closest(n) ==
    CHOOSE b \in Group(n) :
        \A j \in Group(n) :
            \/ FLt(Distance(b, n), Distance(j, n))
            \/ Distance(b, n) = Distance(j, n) /\ b <= j

\* C13: after a snapped tick the curve has one key for every whole frame a
\* mapped time rounds to and no other key, and the key of a frame carries
\* the fields of the candidate closest to the frame, the earliest captured
\* one among equally close candidates.
C13_OneKeyPerFrame ==
    Snapped =>
        /\ Len(Live) = Cardinality(Targets)
        /\ {Live[k].x : k \in DOMAIN Live} = {FromInt(n) : n \in Targets}
        /\ \A k \in DOMAIN Live : WholeTime(Live[k].x)
        /\ \A k \in DOMAIN Live : \A n \in Targets :
              Live[k].x = FromInt(n) =>
                  Fields(Live[k]) = Fields(Captured[Closest(n)])

\* candidates at 24.6 and 25.3 merged into one key at 25 that carries the
\* fields of the second
C13_Witness ==
    /\ Snapped
    /\ \E i, j \in DOMAIN Candidates :
          /\ Candidates[i].x = TenthsTime(246)
          /\ Candidates[j].x = TenthsTime(253)
          /\ Group(25) = {i, j}
          /\ \E k \in DOMAIN Live :
                /\ Live[k].x = FromInt(25)
                /\ Fields(Live[k]) = Fields(Captured[j])
                /\ Fields(Live[k]) # Fields(Captured[i])

\* C14: after a tick without snapping the times of the curve's keys are the
\* mapped times, each once and none altered, and the key of a time carries
\* the fields of the last captured key mapped to exactly that time.
C14_PassThroughLastWins ==
    Mapped =>
        LET times == {Candidates[i].x : i \in DOMAIN Candidates}
            Last(x) == CHOOSE i \in DOMAIN Candidates :
                          /\ Candidates[i].x = x
                          /\ \A j \in DOMAIN Candidates :
                                Candidates[j].x = x => j <= i
        IN  /\ {Live[k].x : k \in DOMAIN Live} = times
            /\ Len(Live) = Cardinality(times)
            /\ \A k \in DOMAIN Live :
                  Fields(Live[k]) = Fields(Captured[Last(Live[k].x)])

\* keys of a segment that has collapsed written as one key, with the fields
\* of the last of them, beside a key at a time that is not a whole frame
C14_Witness ==
    /\ Mapped
    /\ Len(Captured) = 3
    /\ Len(Live) = 2
    /\ Candidates[2].x = Candidates[3].x
    /\ ~WholeTime(Live[1].x)
    /\ Fields(Live[2]) = Fields(Captured[3])

---------------------------------------------------------------------------
(* Properties of the keys of a running session                             *)

\* the markers the operator h saw when it last looked, at the frames it saw
\* them at, and the segments it built of them
SeenMarkers(h) ==
    LET last  == modal_handlers[h]._last_marker_positions
        there == SelectSeq(timeline_markers, LAMBDA m : m.name \in DOMAIN last)
    IN  [i \in DOMAIN there |->
            [name |-> there[i].name, frame |-> last[there[i].name]]]
SeenNames(h) ==
    SortedMarkerNames(get_ordered_markers(SeenMarkers(h)), CapturedPositions)
SeenOSeg(h) == OriginalSegments(SeenNames(h), CapturedPositions)
SeenCSeg(h) ==
    CurrentSegments(SeenNames(h), modal_handlers[h]._last_marker_positions)

\* C15: while a session runs, every key of a tracked curve carries the value,
\* interpolation, handles and kind of one captured key of that curve, all
\* five of the same one, and that captured key is one whose time the last
\* tick mapped to the time of the key, snapped or not.
C15_FieldsOfOneSample ==
    retimer_active =>
        \E h \in DOMAIN modal_handlers :
        \A o \in DOMAIN Snapshot : \A key \in DOMAIN Snapshot[o] :
            LET mapped == [i \in DOMAIN Snapshot[o][key] |->
                             NewX(Snapshot[o][key][i].x, SeenOSeg(h), SeenCSeg(h))]
            IN  \A k \in DOMAIN fcurves[o][key] :
                    \E i \in DOMAIN mapped :
                        /\ Fields(fcurves[o][key][k]) = Fields(Snapshot[o][key][i])
                        /\ \/ fcurves[o][key][k].x = mapped[i]
                           \/ fcurves[o][key][k].x = FromInt(PyRound(mapped[i]))

\* a running session whose curve has fewer keys than were captured, one of
\* them at a time that is not the captured time of the key whose fields it
\* carries
C15_Witness ==
    /\ retimer_active
    /\ "A" \in DOMAIN Snapshot
    /\ Len(Live) = 2
    /\ Len(Captured) = 3
    /\ \E k \in DOMAIN Live : \E i \in DOMAIN Captured :
          Fields(Live[k]) = Fields(Captured[i]) /\ Live[k].x # Captured[i].x

---------------------------------------------------------------------------
(* Properties of the end of a session                                      *)

\* the step of an apply, from the panel, the toggle or the Enter key
ApplyStep == report' = "INFO: Retiming applied."

\* C16: an apply runs only while a session is active; it ends the session,
\* drops the captured marker positions, the list of tracked objects and the
\* captured keys, and leaves every curve and every marker, those made during
\* the session included, as they were.
C16_ApplyKeepsLiveState ==
    [][ ApplyStep =>
            /\ retimer_active
            /\ ~retimer_active'
            /\ DOMAIN retimer_data' \cap {"objects_temp_keyframe_data",
                   "objects_processed", "original_markers"} = {}
            /\ fcurves' = fcurves
            /\ timeline_markers' = timeline_markers
      ]_vars

\* an applied session with three markers, its curve not as it was captured
\* and a marker not where the session found it
C16_Witness ==
    /\ report = "INFO: Retiming applied."
    /\ ~retimer_active
    /\ Len(timeline_markers) = 3
    /\ Live # KeysAt(Frames, 1)
    /\ "original_markers" \notin DOMAIN retimer_data

\* C17: a cancel invoked while no session is active moves no marker, removes
\* no marker and changes no curve.
C17_IdleCancelChangesNothing ==
    [][ (~retimer_active /\ CancelRetiming(NoFaults)) =>
            /\ timeline_markers' = timeline_markers
            /\ fcurves' = fcurves
      ]_vars

\* what a tick polls: the names and positions of the RT_ markers
PolledPositions == MarkerPositions(get_ordered_markers(timeline_markers))

\* the step of a tick that has seen a marker moved, added or removed: the
\* operators stay, one of them with other last seen positions
RecomputeStep ==
    /\ RunningStep
    /\ Len(modal_handlers') = Len(modal_handlers)
    /\ modal_handlers' # modal_handlers

\* C18: while a session runs, the curves change only in a tick whose
\* operator polls other positions than it saw last: a tick that polls the
\* same positions changes no curve, and no tick changes a marker or what the
\* session has stored.  A session starts with the positions of its markers
\* as the last seen, and a tick that recomputes leaves the positions it
\* polled as the last seen and the curves as a second computation from those
\* positions would write them: a second tick changes nothing.
C18_UnchangedPollIsNoOp ==
    [][ /\ (RunningStep /\ fcurves' # fcurves) =>
              /\ RecomputeStep
              /\ \E h \in DOMAIN modal_handlers :
                    modal_handlers[h]._last_marker_positions # PolledPositions
        /\ RecomputeStep =>
              /\ UNCHANGED <<timeline_markers, retimer_data>>
              /\ \E h \in DOMAIN modal_handlers :
                    /\ modal_handlers[h]._last_marker_positions # PolledPositions
                    /\ modal_handlers'[h]._last_marker_positions = PolledPositions'
              /\ retimer_snap_frames' = retimer_snap_frames
              /\ \A o \in DOMAIN Snapshot : \A key \in DOMAIN Snapshot[o] :
                    RetimeFCurve(fcurves'[o][key], Snapshot[o][key], OSeg, CSeg,
                                 retimer_snap_frames, NoFault)
                        = fcurves'[o][key]
        /\ StartStep =>
              modal_handlers'[Len(modal_handlers')]._last_marker_positions
                  = PolledPositions'
      ]_vars

\* a running session whose operator has seen the markers where they are and
\* whose curve is neither as captured nor what a computation from the
\* present snap flag would write: the next tick leaves it
C18_Witness ==
    /\ Ticked
    /\ "A" \in DOMAIN Snapshot
    /\ Live # Captured
    /\ ProcessedFCurves(NoFaults) # fcurves

---------------------------------------------------------------------------
(* Properties of the order of the markers                                  *)

\* the names of the captured markers that are still there, in the order the
\* start of the session listed them: by captured position, markers captured
\* at one position in the order of the scene's collection
CapturedSequence ==
    LET there == SelectSeq(timeline_markers,
                           LAMBDA m : m.name \in DOMAIN CapturedPositions)
        names == [i \in DOMAIN there |-> there[i].name]
    IN  StableSort(names, [i \in DOMAIN names |-> CapturedPositions[names[i]]])

\* C19: in every tick of a session, wherever the markers are dragged and
\* whatever positions were captured, equal ones included, the markers are
\* paired into segments in the captured order of those still there.
C19_SegmentOrderIsCaptured ==
    Ticked => SegmentNames = CapturedSequence

---------------------------------------------------------------------------
(* One session after another                                               *)

\* A session is running: two markers were added at the frames a and b, A
\* was selected and the session was started; no tick has fired since.  The
\* run has used two marker edits, and the session that is running is not
\* one of those it starts: it may end this one and start another.
InitAgain ==
    \E a, b \in Frames :
        LET markers == MapMarkers(<<a, b>>, <<a, b>>)
            curves  == [o \in Objects |->
                          [k \in IF o = "A" THEN FCurveKeys ELSE {} |->
                              KeysAt(Frames, 1)]]
        IN  /\ timeline_markers = markers
            /\ objects = [o \in Objects |-> IF o = "A" THEN "ok" ELSE "noanim"]
            /\ selected_objects = {"A"}
            /\ fcurves = curves
            /\ retimer_data =
                  Put(Put(Put(InitialRetimerData,
                      "original_markers",
                          MarkerPositions(get_ordered_markers(markers))),
                      "objects_temp_keyframe_data", [o \in {"A"} |-> curves[o]]),
                      "objects_processed", <<"A">>)
            /\ retimer_active = TRUE
            /\ retimer_snap_frames = TRUE
            /\ modal_handlers =
                  <<[_last_marker_positions |->
                        MarkerPositions(get_ordered_markers(markers))]>>
            /\ report = NoReport
            /\ used = [sessions |-> 0, edits |-> 2, faults |-> 0]

SpecAgain == InitAgain /\ [][Next]_vars

\* C20: the curves change only while a session is active; an apply and a
\* cancel leave no session active; the operator of a session that was
\* applied or cancelled stops at its next event and changes no curve, so
\* the only operator that ever recomputes is that of the running session,
\* the one started last; and a start from idle with two or more markers and
\* a selected object with animation starts a session.
C20_EndedSessionStopsItsOperator ==
    [][ /\ fcurves' # fcurves => retimer_active
        /\ (ApplyStep \/ CancelStep) => ~retimer_active'
        /\ (~retimer_active /\ Len(modal_handlers') < Len(modal_handlers))
              => fcurves' = fcurves
        /\ (retimer_active /\ Len(modal_handlers') = Len(modal_handlers)) =>
              \A h \in 1..(Len(modal_handlers) - 1) :
                  modal_handlers'[h] = modal_handlers[h]
        /\ (/\ ~retimer_active
            /\ RetimeMarkerExecute
            /\ Len(timeline_markers) >= 2
            /\ \E o \in selected_objects : Animated(o)) => retimer_active'
      ]_vars

---------------------------------------------------------------------------
(* The host changing the scene under a running session                     *)

\* the user deletes marker i with the timeline's own delete while a session
\* runs (the add-on's Delete Marker is disabled then)
RemoveMarker(i) ==
    /\ retimer_active
    /\ i \in DOMAIN timeline_markers
    /\ timeline_markers' = RemoveAt(timeline_markers, i)
    /\ report' = NoReport
    /\ UNCHANGED <<objects, selected_objects, fcurves, retimer_data,
                   retimer_active, retimer_snap_frames, modal_handlers>>
    /\ Edit

\* what bpy.data.objects.get(obj_name) and obj.animation_data give for a
\* tracked object: the object with its action, the object without animation
\* data, or nothing
\* a tracked object is deleted, loses its animation data, or is back with
\* the action it had (an undo, or the action assigned again): the action and
\* its F-Curves outlive the object
ObjectChange(o, s) ==
    /\ retimer_active
    /\ o \in Range(Get(retimer_data, "objects_processed", <<>>))
    /\ objects[o] # s
    /\ objects' = [objects EXCEPT ![o] = s]
    /\ report' = NoReport
    /\ UNCHANGED <<timeline_markers, selected_objects, fcurves, retimer_data,
                   retimer_active, retimer_snap_frames, modal_handlers, used>>

\* a pass in which nothing goes wrong, or remove() raises ReferenceError at
\* the first key of one F-Curve
ClearFaultChoices ==
    {NoFaults} \cup
    {[NoFaults EXCEPT ![c[1]][c[2]] = [clear |-> 0, skip |-> {}]] :
        c \in TrackedCurves}

\* process_retiming of the operator modal_handlers[h] gets as far as the
\* loop over the objects
ReachesObjects(h) ==
    LET markers == get_ordered_markers(timeline_markers)
        original_marker_positions ==
            Get(retimer_data, "original_markers", EmptyDict)
    IN  /\ Len(markers) >= 2
        /\ MarkerPositions(markers) # modal_handlers[h]._last_marker_positions
        /\ DOMAIN original_marker_positions # {}
        /\ Len(SortedMarkerNames(markers, original_marker_positions)) >= 2
        /\ Get(retimer_data, "objects_processed", <<>>) # <<>>

\* modal() on a TIMER event in which process_retiming raises what it does
\* not catch itself (fcurve.update(), or remove() raising another error than
\* ReferenceError), before the first write or after the last: the operator
\* removes its timer, sets wm.retimer_active off and ends
ModalTimerError(h) ==
    /\ h \in DOMAIN modal_handlers
    /\ retimer_active
    /\ ReachesObjects(h)
    /\ \E o \in Range(Get(retimer_data, "objects_processed", <<>>)) : Animated(o)
    /\ used.faults < MaxFaults
    /\ used' = [used EXCEPT !.faults = @ + 1]
    /\ fcurves' \in {fcurves, ProcessedFCurves(NoFaults)}
    /\ modal_handlers' = RemoveAt(modal_handlers, h)
    /\ retimer_active' = FALSE
    /\ report' = "ERROR: Error during update, retiming cancelled."
    /\ UNCHANGED <<timeline_markers, objects, selected_objects, retimer_data,
                   retimer_snap_frames>>

\* the captured keys of B in the sessions below: other fields than A's
HostKeys(o) == KeysAt(Frames, IF o = "A" THEN 1 ELSE 4)

\* the frames at which the markers of the sessions below were added, in the
\* order they were added in: two or three markers, in and out of the order
\* of their frames, two of them at one frame
HostOriginalFrames == {<<0, 2>>, <<0, 1, 2>>, <<2, 0, 1>>, <<0, 0, 2>>}

\* A session is running: the markers were added at the frames orig, A and
\* B, both animated, were selected and the session was started; no tick
\* has fired since.
InitHost ==
    \E orig \in HostOriginalFrames :
        LET markers == MapMarkers(orig, orig)
            curves  == [o \in Objects |-> [k \in FCurveKeys |-> HostKeys(o)]]
        IN  /\ timeline_markers = markers
            /\ objects = [o \in Objects |-> "ok"]
            /\ selected_objects = Objects
            /\ fcurves = curves
            /\ retimer_data =
                  Put(Put(Put(InitialRetimerData,
                      "original_markers", MarkerPositions(get_ordered_markers(markers))),
                      "objects_temp_keyframe_data", curves),
                      "objects_processed", ObjectOrder)
            /\ retimer_active = TRUE
            /\ retimer_snap_frames = TRUE
            /\ modal_handlers = <<[_last_marker_positions |->
                                    MarkerPositions(get_ordered_markers(markers))]>>
            /\ report = NoReport
            /\ used = [sessions |-> MaxSessions, edits |-> MaxEdits - 2, faults |-> 0]

NextHost ==
    \/ \E frame \in Frames : retimer_active /\ AddMarker(frame)
    \/ \E i \in 1..MaxMarkers, frame \in Frames :
          retimer_active /\ MoveMarker(i, frame)
    \/ \E i \in 1..MaxMarkers : RemoveMarker(i)
    \/ \E o \in Objects, s \in {"ok", "noanim", "gone"} : ObjectChange(o, s)
    \/ ApplyRetiming
    \/ CancelRetiming(NoFaults)
    \/ \E h \in 1..MaxHandlers : ModalStop(h)
    \/ \E h \in 1..MaxHandlers, faults \in ClearFaultChoices : ModalTimer(h, faults)
    \/ \E h \in 1..MaxHandlers : ModalTimerError(h)

SpecHost == InitHost /\ [][NextHost]_vars

---------------------------------------------------------------------------
(* Properties of a session whose scene changes under it                    *)

\* the adjacent pairs of the captured markers still there, in the order the
\* start listed them: their captured positions and their present frames
CapturedPairs ==
    [i \in 1..(Len(CapturedSequence) - 1) |->
        <<CapturedPositions[CapturedSequence[i]],
          CapturedPositions[CapturedSequence[i + 1]]>>]
CurrentPairs ==
    [i \in 1..(Len(CapturedSequence) - 1) |->
        <<MarkerPositions(timeline_markers)[CapturedSequence[i]],
          MarkerPositions(timeline_markers)[CapturedSequence[i + 1]]>>]

\* the F-Curves a tick can write: captured, of an object that is there with
\* its action
Writable ==
    {c \in TrackedCurves : Animated(c[1]) /\ c[2] \in DOMAIN fcurves[c[1]]}

\* C21: a tick that recomputes after a captured marker was deleted pairs the
\* captured markers that remain, and no other marker, in their captured
\* order: the segments are contiguous in original time, and every curve the
\* tick writes is the remap of its captured keys over these segments.  While
\* fewer than two markers, or fewer than two captured markers, remain, no
\* tick changes a curve.
C21_SegmentsOfRemainingMarkers ==
    [][ /\ (RecomputeStep /\ Len(CapturedSequence) >= 2
            /\ \E nm \in DOMAIN CapturedPositions : nm \notin MarkerNames) =>
              /\ OSeg = CapturedPairs
              /\ CSeg = CurrentPairs
              /\ \A i \in 1..(Len(OSeg) - 1) : OSeg[i][2] = OSeg[i + 1][1]
              /\ \A c \in Writable :
                    \/ fcurves'[c[1]][c[2]] = fcurves[c[1]][c[2]]
                    \/ fcurves'[c[1]][c[2]] =
                          FinalSortedKeys(
                              CalculatedNewKeys(Snapshot[c[1]][c[2]],
                                                CapturedPairs, CurrentPairs),
                              retimer_snap_frames)
        /\ (RunningStep /\ (Len(timeline_markers) < 2 \/ Len(CapturedSequence) < 2))
              => fcurves' = fcurves
      ]_vars

\* C22: a tick that recomputes leaves every tracked curve that is there
\* with the quantized remap of its captured keys under the marker positions
\* and the snap flag of that tick: the keys the curve had before, and the
\* ticks and positions that led to them, play no part.
C22_RecomputeFromCaptured ==
    [][ (RecomputeStep /\ Len(SegmentNames) >= 2) =>
            \A c \in Writable :
                fcurves'[c[1]][c[2]] =
                    FinalSortedKeys(
                        CalculatedNewKeys(Snapshot[c[1]][c[2]], OSeg, CSeg),
                        retimer_snap_frames)
      ]_vars

\* a tick has recomputed with the markers away from where they were
\* captured: the curve is the remap under the present positions and is not
\* as captured
C22_Witness ==
    /\ Ticked
    /\ Len(SegmentNames) >= 2
    /\ Live = FinalSortedKeys(Candidates, retimer_snap_frames)
    /\ Live # Captured
    /\ modal_handlers[1]._last_marker_positions # CapturedPositions

\* the tick of this step has left the curve c with the remap of its
\* captured keys
Recomputed(c) ==
    fcurves'[c[1]][c[2]] =
        FinalSortedKeys(CalculatedNewKeys(Snapshot[c[1]][c[2]], OSeg, CSeg),
                        retimer_snap_frames)

\* C23: in a tick that recomputes, a tracked object that is gone or has lost
\* its animation data is left alone and a curve whose keys cannot be cleared
\* keeps them, and neither ends the pass: every other tracked curve is
\* recomputed in that tick and the session stays active.
C23_SkipsDoNotStopThePass ==
    [][ (retimer_active /\ Len(modal_handlers') = Len(modal_handlers)
            /\ modal_handlers' # modal_handlers /\ Len(SegmentNames) >= 2) =>
            /\ retimer_active'
            /\ \A o \in Objects : ~Animated(o) => fcurves'[o] = fcurves[o]
            /\ \A c \in Writable :
                  \/ Recomputed(c)
                  \/ /\ used'.faults = used.faults + 1
                     /\ fcurves'[c[1]][c[2]] = fcurves[c[1]][c[2]]
                     /\ \A d \in Writable \ {c} : Recomputed(d)
      ]_vars

\* the first tracked object is gone or without animation data and has the
\* keys that were captured; a tick has seen the markers where they are and
\* has left the second object with the remap, other keys than were captured
C23_Witness ==
    /\ Ticked
    /\ Len(SegmentNames) >= 2
    /\ objects["A"] # "ok"
    /\ fcurves["A"] = Snapshot["A"]
    /\ objects["B"] = "ok"
    /\ fcurves["B"][<<"location", 0>>] =
          FinalSortedKeys(
              CalculatedNewKeys(Snapshot["B"][<<"location", 0>>], OSeg, CSeg),
              retimer_snap_frames)
    /\ fcurves["B"] # Snapshot["B"]

\* The last tick that recomputed has skipped the object o: no write has
\* gone wrong in the session and no marker was deleted since that tick, and
\* the curve of o is not the remap of its captured keys under the positions
\* the tick saw.
SkippedBefore(o) ==
    /\ retimer_active
    /\ used.faults = 0
    /\ o \in DOMAIN Snapshot
    /\ \E h \in DOMAIN modal_handlers :
          /\ DOMAIN modal_handlers[h]._last_marker_positions \subseteq MarkerNames
          /\ modal_handlers[h]._last_marker_positions # CapturedPositions
          /\ Len(SeenNames(h)) >= 2
          /\ \E key \in DOMAIN Snapshot[o] :
                fcurves[o][key] #
                    FinalSortedKeys(
                        CalculatedNewKeys(Snapshot[o][key], SeenOSeg(h), SeenCSeg(h)),
                        retimer_snap_frames)

\* C24 as amended: an object that could not be read in a tick is skipped in
\* that tick only.  A later tick of the session that recomputes while the
\* object is there with its action writes its curves again, the remap of
\* their captured keys under the positions of that tick.
C24_SkippedInThatTickOnly ==
    [][ \A o \in Objects :
          (RecomputeStep /\ Len(SegmentNames) >= 2 /\ SkippedBefore(o)
              /\ Animated(o) /\ used' = used) =>
                \A c \in Writable : c[1] = o => Recomputed(c)
      ]_vars

\* the last tick has skipped A, A is back with its action, a marker has
\* been moved since and the next tick will recompute
C24_Witness ==
    /\ SkippedBefore("A")
    /\ objects["A"] = "ok"
    /\ Len(SegmentNames) >= 2
    /\ \A h \in DOMAIN modal_handlers :
          modal_handlers[h]._last_marker_positions # PolledPositions

\* C24: once a tick of a session has skipped an object that could not be
\* read, no later tick of that session writes a key to it, back or not.
C24_SkippedForTheRestOfTheSession ==
    [][ \A o \in Objects :
          (RunningStep /\ SkippedBefore(o)) => fcurves'[o] = fcurves[o]
      ]_vars

\* C25: a cancel that finds a captured object gone or without its action
\* goes on: every captured curve of the objects that are there gets its
\* captured keys back, the curves of the missing objects are left, every
\* captured marker still in the scene is put back where it was captured and
\* every other marker is removed, what was captured is dropped and the
\* session is over.
C25_CancelGoesOnPastMissingObjects ==
    [][ (CancelStep /\ \E o \in DOMAIN Snapshot : ~Animated(o)) =>
            /\ \A o \in DOMAIN Snapshot :
                  IF Animated(o)
                  THEN \A key \in DOMAIN Snapshot[o] \cap DOMAIN fcurves[o] :
                          fcurves'[o][key] = Snapshot[o][key]
                  ELSE fcurves'[o] = fcurves[o]
            /\ \A nm \in DOMAIN CapturedPositions \cap MarkerNames :
                  \E i \in DOMAIN timeline_markers' :
                      /\ timeline_markers'[i].name = nm
                      /\ timeline_markers'[i].frame = CapturedPositions[nm]
            /\ \A i \in DOMAIN timeline_markers' :
                  timeline_markers'[i].name \in DOMAIN CapturedPositions
            /\ "objects_temp_keyframe_data" \notin DOMAIN retimer_data'
            /\ "objects_processed" \notin DOMAIN retimer_data'
            /\ "original_markers" \notin DOMAIN retimer_data'
            /\ ~retimer_active'
      ]_vars

\* a session was cancelled after A had gone: A has the keys the last tick
\* gave it, B, retimed by the same ticks, has its captured keys again
C25_Witness ==
    /\ ~retimer_active
    /\ report = "INFO: Retiming cancelled, changes discarded."
    /\ used.faults = 0
    /\ objects["A"] = "gone"
    /\ objects["B"] = "ok"
    /\ fcurves["A"][<<"location", 0>>] # HostKeys("A")
    /\ fcurves["B"][<<"location", 0>>] = HostKeys("B")
    /\ "objects_temp_keyframe_data" \notin DOMAIN retimer_data

\* C26: while no session is active, the add-on keeps no captured keys and
\* no list of tracked objects, however the last session ended: by an apply,
\* by a cancel, or by a tick that raised an error and ended the operator.
C26_NothingCapturedWhileIdle ==
    ~retimer_active =>
        /\ Get(retimer_data, "objects_temp_keyframe_data", EmptyDict) = EmptyDict
        /\ Get(retimer_data, "objects_processed", <<>>) = <<>>

---------------------------------------------------------------------------
(* Properties of the snap flag and of the positions at an apply            *)

\* every operator has seen the markers where they are
AllSeen ==
    \A h \in DOMAIN modal_handlers :
        modal_handlers[h]._last_marker_positions = PolledPositions

\* the curve of A is the remap under the present positions as the other
\* value of the snap flag quantizes it, not as the present value does
OtherQuantization ==
    /\ "A" \in DOMAIN Snapshot
    /\ Len(SegmentNames) >= 2
    /\ Live = FinalSortedKeys(Candidates, ~retimer_snap_frames)
    /\ Live # FinalSortedKeys(Candidates, retimer_snap_frames)

\* C27: a change of the snap flag changes no curve, and as long as the
\* markers stay where the operator saw them last no tick does either: the
\* keys keep the quantization of the last recompute, that of the old value
\* of the flag.
C27_SnapFlagAloneChangesNothing ==
    [][ /\ retimer_snap_frames' # retimer_snap_frames =>
              UNCHANGED <<fcurves, timeline_markers, modal_handlers>>
        /\ (RunningStep /\ AllSeen /\ OtherQuantization
                /\ timeline_markers' = timeline_markers) => fcurves' = fcurves
      ]_vars

\* the flag was flipped after the last recompute and a tick has fired since:
\* the operator has seen the markers where they are and the keys are
\* quantized as the old value of the flag has it
C27_Witness ==
    /\ retimer_active
    /\ modal_handlers # <<>>
    /\ AllSeen
    /\ OtherQuantization

\* the captured positions of the markers are pairwise distinct
DistinctCaptured ==
    \A a, b \in DOMAIN CapturedPositions :
        a # b => CapturedPositions[a] # CapturedPositions[b]

\* C28: with the markers captured at pairwise distinct positions, a key
\* captured at the position of a marker is mapped, before any snapping, to
\* the frame that marker is at now, wherever the markers are dragged, out of
\* order included, for the first, the last and every marker between; a tick
\* without snapping writes the key at that frame.
C28_KeyOnMarkerFollowsMarker ==
    (retimer_active /\ DistinctCaptured /\ Len(SegmentNames) >= 2) =>
        \A i \in DOMAIN SegmentNames :
            CapturedTime = FromInt(CapturedPositions[SegmentNames[i]]) =>
                LET now == FromInt(MarkerPositions(timeline_markers)[SegmentNames[i]])
                IN  /\ NewX(CapturedTime, OSeg, CSeg) = now
                    /\ Mapped => MappedTime = now

\* three markers captured at distinct positions, the key captured at the
\* position of the middle one; the first segment is dragged inside out and
\* a tick without snapping has written the key at the frame of the middle
\* marker, another than it was captured at
C28_Witness ==
    /\ Mapped
    /\ DistinctCaptured
    /\ Len(SegmentNames) = 3
    /\ CapturedTime = FromInt(CapturedPositions[SegmentNames[2]])
    /\ CSeg[1][1] > CSeg[1][2]
    /\ MappedTime = FromInt(CSeg[1][2])
    /\ MappedTime # CapturedTime

\* C29 as amended: an apply leaves every tracked curve with the keys it has,
\* the remap of its captured keys under the marker positions the last tick
\* saw; a marker moved after that tick and before the apply stays where it
\* is and is not in the keys.
C29_ApplyKeepsLastTick ==
    [][ (retimer_active /\ ApplyStep) =>
            /\ fcurves' = fcurves
            /\ timeline_markers' = timeline_markers
            /\ \E h \in DOMAIN modal_handlers :
                  \A c \in Writable : \E snap \in BOOLEAN :
                      fcurves[c[1]][c[2]] =
                          FinalSortedKeys(
                              CalculatedNewKeys(Snapshot[c[1]][c[2]],
                                                SeenOSeg(h), SeenCSeg(h)),
                              snap)
      ]_vars

\* a session was applied with a marker moved after the last tick of its
\* operator: the markers are not where that tick saw them
C29_Witness ==
    /\ ~retimer_active
    /\ report = "INFO: Retiming applied."
    /\ modal_handlers # <<>>
    /\ modal_handlers[1]._last_marker_positions # PolledPositions
    /\ DOMAIN modal_handlers[1]._last_marker_positions = MarkerNames
    /\ Len(timeline_markers) >= 2

\* C29: right after an apply every tracked curve is the quantized remap of
\* its captured keys under the positions the markers have at the apply: a
\* marker moved after the last tick is in the applied keys.
C29_ApplyReflectsPositions ==
    [][ (retimer_active /\ ApplyStep /\ Len(SegmentNames) >= 2) =>
            \A c \in Writable :
                fcurves'[c[1]][c[2]] =
                    FinalSortedKeys(
                        CalculatedNewKeys(Snapshot[c[1]][c[2]], OSeg, CSeg),
                        retimer_snap_frames)
      ]_vars

---------------------------------------------------------------------------
(* Properties of the operators of successive sessions                      *)

\* C30: at most one operator recomputes the curves at any time.  The
\* operator a session started ends with that session and polls no marker
\* for a later one, however the apply or cancel, the next start and the
\* operator's next event follow one another: a tick that polls the markers
\* is the tick of the only operator there is, and a session that starts
\* finds no operator of an earlier one still polling when its own first
\* event arrives.
C30_OneOperatorPolls ==
    [][ (RunningStep /\ Len(modal_handlers') = Len(modal_handlers)
            /\ modal_handlers' # modal_handlers) => Len(modal_handlers) = 1
      ]_vars

=============================================================================
